---------------------------- MODULE Spec2Model ----------------------------
(***************************************************************************)
(* Backtest loop and portfolio/trade lifecycle of trading-bot-structure.   *)
(*                                                                         *)
(* Two variants live in the repository:                                    *)
(*   - the "ledger" variant (src/antique_version): Trade objects, a        *)
(*     Portfolio with cash / trades_open / trades_closed, and              *)
(*     BacktestEngine.run driving it bar by bar;                           *)
(*   - the "positions" variant (src/portfolio.py, src/backtest_engine.py): *)
(*     a Portfolio with current_capital / positions / trades and           *)
(*     BacktestEngine.run_backtest.                                        *)
(*                                                                         *)
(* Python floats are modelled as exact rationals [n, d] in lowest terms    *)
(* (d > 0); d = 0 encodes Python's None.  Rounding of IEEE doubles is not  *)
(* modelled.                                                               *)
(***************************************************************************)
EXTENDS Integers, Sequences, FiniteSets, TLC

(***************************************************************************)
(* Numbers                                                                 *)
(***************************************************************************)
Abs(x) == IF x < 0 THEN -x ELSE x

RECURSIVE GCD(_, _)
GCD(a, b) == IF b = 0 THEN a ELSE GCD(b, a % b)

Norm(n, d) ==
    LET g == GCD(Abs(n), d)
    IN  [n |-> n \div g, d |-> d \div g]

R(k) == [n |-> k, d |-> 1]
Frac(a, b) == Norm(a, b)
None == [n |-> 0, d |-> 0]
IsNone(x) == x.d = 0

RAdd(a, b) == Norm(a.n * b.d + b.n * a.d, a.d * b.d)
RSub(a, b) == Norm(a.n * b.d - b.n * a.d, a.d * b.d)
RMul(a, b) == Norm(a.n * b.n, a.d * b.d)
\* a / b for b # 0
RDiv(a, b) ==
    IF b.n > 0 THEN Norm(a.n * b.d, a.d * b.n)
               ELSE Norm(-(a.n * b.d), a.d * (-b.n))
RLt(a, b) == a.n * b.d < b.n * a.d
RLe(a, b) == a.n * b.d <= b.n * a.d
RMin(a, b) == IF RLe(a, b) THEN a ELSE b
Zero == R(0)

NoTime == 0

(***************************************************************************)
(* Ledger variant: Trade (src/antique_version/core/trade.py)               *)
(***************************************************************************)
\* The dataclass constructor: no validation of direction, size or price.
Trade(trade_id, ticker, direction, entry_price, size, stop_loss, take_profit, entry_time) ==
    [trade_id    |-> trade_id,
     ticker      |-> ticker,
     direction   |-> direction,
     entry_price |-> entry_price,
     size        |-> size,
     stop_loss   |-> stop_loss,
     take_profit |-> take_profit,
     entry_time  |-> entry_time,
     exit_price  |-> None,
     exit_time   |-> NoTime,
     status      |-> "open",
     pnl         |-> None]

\* No Trade object.
NoTrade ==
    [trade_id |-> 0, ticker |-> "", direction |-> "", entry_price |-> None, size |-> None,
     stop_loss |-> None, take_profit |-> None, entry_time |-> NoTime, exit_price |-> None,
     exit_time |-> NoTime, status |-> "", pnl |-> None]

\* A mutant of Trade.close without the early return on a closed trade.
CloseNoGuard(self, price, time) ==
    LET t1 == [self EXCEPT !.exit_price = price, !.exit_time = time,
                           !.status = "closed"]
    IN  IF self.direction = "long"
        THEN [trade |-> [t1 EXCEPT !.pnl = RMul(RSub(price, self.entry_price), self.size)],
              raised |-> ""]
        ELSE IF self.direction = "short"
        THEN [trade |-> [t1 EXCEPT !.pnl = RMul(RSub(self.entry_price, price), self.size)],
              raised |-> ""]
        ELSE [trade |-> t1, raised |-> "ValueError"]

\* A mutant of Trade.close that computes every pnl as a long's.
CloseAsLong(self, price, time) ==
    IF self.status = "closed"
    THEN [trade |-> self, raised |-> ""]
    ELSE [trade |-> [self EXCEPT !.exit_price = price, !.exit_time = time,
                                 !.status = "closed",
                                 !.pnl = RMul(RSub(price, self.entry_price), self.size)],
          raised |-> ""]

\* Trade.close(price, time): the trade after the call and the exception raised
\* ("" when the call returns).  The exit fields and the status are assigned
\* before the direction is examined, so an invalid direction leaves the trade
\* closed with pnl = None.
Close(self, price, time) ==
    IF self.status = "closed"
    THEN [trade |-> self, raised |-> ""]
    ELSE LET t1 == [self EXCEPT !.exit_price = price, !.exit_time = time,
                                !.status = "closed"]
         IN  IF self.direction = "long"
             THEN [trade |-> [t1 EXCEPT !.pnl = RMul(RSub(price, self.entry_price), self.size)],
                   raised |-> ""]
             ELSE IF self.direction = "short"
             THEN [trade |-> [t1 EXCEPT !.pnl = RMul(RSub(self.entry_price, price), self.size)],
                   raised |-> ""]
             ELSE [trade |-> t1, raised |-> "ValueError"]

\* A mutant of check_exit whose levels must be crossed, not only reached.
CheckExitStrict(self, current_price, current_time) ==
    IF self.status = "closed"
    THEN [trade |-> self, closed |-> FALSE]
    ELSE IF /\ ~IsNone(self.stop_loss)
            /\ \/ self.direction = "long" /\ RLt(current_price, self.stop_loss)
               \/ self.direction = "short" /\ RLt(self.stop_loss, current_price)
    THEN [trade |-> Close(self, current_price, current_time).trade, closed |-> TRUE]
    ELSE IF /\ ~IsNone(self.take_profit)
            /\ \/ self.direction = "long" /\ RLt(self.take_profit, current_price)
               \/ self.direction = "short" /\ RLt(current_price, self.take_profit)
    THEN [trade |-> Close(self, current_price, current_time).trade, closed |-> TRUE]
    ELSE [trade |-> self, closed |-> FALSE]

\* Trade.check_exit(current_price, current_time): the trade after the call and
\* the value returned.
CheckExit(self, current_price, current_time) ==
    IF self.status = "closed"
    THEN [trade |-> self, closed |-> FALSE]
    ELSE IF /\ ~IsNone(self.stop_loss)
            /\ \/ self.direction = "long" /\ RLe(current_price, self.stop_loss)
               \/ self.direction = "short" /\ RLe(self.stop_loss, current_price)
    THEN [trade |-> Close(self, current_price, current_time).trade, closed |-> TRUE]
    ELSE IF /\ ~IsNone(self.take_profit)
            /\ \/ self.direction = "long" /\ RLe(self.take_profit, current_price)
               \/ self.direction = "short" /\ RLe(current_price, self.take_profit)
    THEN [trade |-> Close(self, current_price, current_time).trade, closed |-> TRUE]
    ELSE [trade |-> self, closed |-> FALSE]

\* A mutant of unrealized_pnl that takes an unknown direction for a flat
\* position worth 0.
UnrealizedPnlLenient(self, current_price) ==
    IF self.status = "closed" THEN [value |-> Zero, raised |-> ""]
    ELSE IF self.direction = "long"
    THEN [value |-> RMul(RSub(current_price, self.entry_price), self.size), raised |-> ""]
    ELSE IF self.direction = "short"
    THEN [value |-> RMul(RSub(self.entry_price, current_price), self.size), raised |-> ""]
    ELSE [value |-> Zero, raised |-> ""]

\* Trade.unrealized_pnl(current_price): the value returned and the exception.
UnrealizedPnl(self, current_price) ==
    IF self.status = "closed" THEN [value |-> Zero, raised |-> ""]
    ELSE IF self.direction = "long"
    THEN [value |-> RMul(RSub(current_price, self.entry_price), self.size), raised |-> ""]
    ELSE IF self.direction = "short"
    THEN [value |-> RMul(RSub(self.entry_price, current_price), self.size), raised |-> ""]
    ELSE [value |-> Zero, raised |-> "ValueError"]

(***************************************************************************)
(* Ledger variant: Portfolio (src/antique_version/core/portfolio.py)       *)
(* A Portfolio object is a record; trades_open keeps the dict's insertion  *)
(* order as a sequence of Trade records keyed by trade_id.                 *)
(***************************************************************************)
NewPortfolio(initial_capital) ==
    [initial_capital |-> initial_capital,
     cash            |-> initial_capital,
     trades_open     |-> << >>,
     trades_closed   |-> << >>]

HasKey(trades, trade_id) == \E k \in DOMAIN trades : trades[k].trade_id = trade_id
Lookup(trades, trade_id) ==
    trades[CHOOSE k \in DOMAIN trades : trades[k].trade_id = trade_id]
DelKey(trades, trade_id) == SelectSeq(trades, LAMBDA t : t.trade_id # trade_id)
\* The object stored under a key is mutated in place.
Mutate(trades, trade) ==
    [k \in DOMAIN trades |->
        IF trades[k].trade_id = trade.trade_id THEN trade ELSE trades[k]]

\* A mutant of open_trade that debits the requested cost, not the clamped one.
OpenTradeDebitsRequest(pf, trade_id, symbol, direction, entry_price, size, stop_loss, take_profit, time) ==
    LET cost0 == RMul(entry_price, size)
        clamp == RLt(pf.cash, cost0) /\ RLt(Zero, entry_price)
        size1 == IF clamp THEN RDiv(pf.cash, entry_price) ELSE size
        cost  == IF clamp THEN RMul(entry_price, size1) ELSE cost0
    IN  IF RLe(cost, Zero)
        THEN [pf |-> pf, ret |-> 0]
        ELSE [pf |-> [pf EXCEPT
                        !.cash = RSub(pf.cash, cost0),
                        !.trades_open = Append(pf.trades_open,
                            Trade(trade_id, symbol, direction, entry_price, size1,
                                  stop_loss, take_profit, time))],
              ret |-> trade_id]

\* A mutant of open_trade without the `cost <= 0` return.
OpenTradeNoGuard(pf, trade_id, symbol, direction, entry_price, size, stop_loss, take_profit, time) ==
    LET cost0 == RMul(entry_price, size)
        clamp == RLt(pf.cash, cost0) /\ RLt(Zero, entry_price)
        size1 == IF clamp THEN RDiv(pf.cash, entry_price) ELSE size
        cost  == IF clamp THEN RMul(entry_price, size1) ELSE cost0
    IN  [pf |-> [pf EXCEPT
                    !.cash = RSub(pf.cash, cost),
                    !.trades_open = Append(pf.trades_open,
                        Trade(trade_id, symbol, direction, entry_price, size1,
                              stop_loss, take_profit, time))],
         ret |-> trade_id]

\* Portfolio.open_trade; trade_id is the fresh uuid the Trade constructor
\* draws.  ret is the trade_id of the trade returned, 0 for None.
OpenTrade(pf, trade_id, symbol, direction, entry_price, size, stop_loss, take_profit, time) ==
    LET cost0 == RMul(entry_price, size)
        clamp == RLt(pf.cash, cost0) /\ RLt(Zero, entry_price)
        size1 == IF clamp THEN RDiv(pf.cash, entry_price) ELSE size
        cost  == IF clamp THEN RMul(entry_price, size1) ELSE cost0
    IN  IF RLe(cost, Zero)
        THEN [pf |-> pf, ret |-> 0]
        ELSE [pf |-> [pf EXCEPT
                        !.cash = RSub(pf.cash, cost),
                        !.trades_open = Append(pf.trades_open,
                            Trade(trade_id, symbol, direction, entry_price, size1,
                                  stop_loss, take_profit, time))],
              ret |-> trade_id]

\* A mutant of _settle_trade that credits the pnl and forgets the notional.
SettleTradePnlOnly(pf, trade) ==
    IF trade.status # "closed"
    THEN [pf |-> pf, raised |-> ""]
    ELSE LET pnl  == IF IsNone(trade.pnl) THEN Zero ELSE trade.pnl
             pf1  == [pf EXCEPT !.cash = RAdd(pf.cash, pnl),
                                !.trades_closed = Append(pf.trades_closed, trade)]
         IN  IF HasKey(pf.trades_open, trade.trade_id)
             THEN [pf |-> [pf1 EXCEPT !.trades_open = DelKey(pf.trades_open, trade.trade_id)],
                   raised |-> ""]
             ELSE [pf |-> pf1, raised |-> "KeyError"]

\* A mutant of _settle_trade that files the trade at the head of the closed
\* list.
SettleTradeAtHead(pf, trade) ==
    IF trade.status # "closed"
    THEN [pf |-> pf, raised |-> ""]
    ELSE LET cost == RMul(trade.entry_price, trade.size)
             pnl  == IF IsNone(trade.pnl) THEN Zero ELSE trade.pnl
             pf1  == [pf EXCEPT !.cash = RAdd(pf.cash, RAdd(cost, pnl)),
                                !.trades_closed = <<trade>> \o pf.trades_closed]
         IN  IF HasKey(pf.trades_open, trade.trade_id)
             THEN [pf |-> [pf1 EXCEPT !.trades_open = DelKey(pf.trades_open, trade.trade_id)],
                   raised |-> ""]
             ELSE [pf |-> pf1, raised |-> "KeyError"]

\* Portfolio._settle_trade(trade): the trade object is the one the caller
\* holds; `del` raises KeyError when its id is no key of trades_open.
SettleTrade(pf, trade) ==
    IF trade.status # "closed"
    THEN [pf |-> pf, raised |-> ""]
    ELSE LET cost == RMul(trade.entry_price, trade.size)
             pnl  == IF IsNone(trade.pnl) THEN Zero ELSE trade.pnl
             pf1  == [pf EXCEPT !.cash = RAdd(pf.cash, RAdd(cost, pnl)),
                                !.trades_closed = Append(pf.trades_closed, trade)]
         IN  IF HasKey(pf.trades_open, trade.trade_id)
             THEN [pf |-> [pf1 EXCEPT !.trades_open = DelKey(pf.trades_open, trade.trade_id)],
                   raised |-> ""]
             ELSE [pf |-> pf1, raised |-> "KeyError"]

\* The loop of Portfolio.update_market over the snapshot list(items()),
\* from position k of the snapshot on.
RECURSIVE UpdateMarketFrom(_, _, _, _, _, _)
UpdateMarketFrom(pf, snapshot, k, symbol, price, time) ==
    IF k > Len(snapshot) THEN pf
    ELSE IF snapshot[k].ticker # symbol
    THEN UpdateMarketFrom(pf, snapshot, k + 1, symbol, price, time)
    ELSE LET trade == Lookup(pf.trades_open, snapshot[k].trade_id)
             chk   == CheckExit(trade, price, time)
             pf1   == [pf EXCEPT !.trades_open = Mutate(pf.trades_open, chk.trade)]
         IN  IF chk.closed
             THEN UpdateMarketFrom(SettleTrade(pf1, chk.trade).pf, snapshot, k + 1,
                                   symbol, price, time)
             ELSE UpdateMarketFrom(pf1, snapshot, k + 1, symbol, price, time)

\* A mutant of update_market that walks the live collection by position
\* instead of the snapshot: the trade that follows a settled one is stepped
\* over.
RECURSIVE UpdateMarketLiveFrom(_, _, _, _, _)
UpdateMarketLiveFrom(pf, k, symbol, price, time) ==
    IF k > Len(pf.trades_open) THEN pf
    ELSE LET trade == pf.trades_open[k]
             chk   == CheckExit(trade, price, time)
             pf1   == [pf EXCEPT !.trades_open = Mutate(pf.trades_open, chk.trade)]
         IN  IF trade.ticker = symbol /\ chk.closed
             THEN UpdateMarketLiveFrom(SettleTrade(pf1, chk.trade).pf, k + 1,
                                       symbol, price, time)
             ELSE UpdateMarketLiveFrom(pf, k + 1, symbol, price, time)

UpdateMarketLive(pf, symbol, price, time) ==
    UpdateMarketLiveFrom(pf, 1, symbol, price, time)

\* A mutant of update_market without the test of the ticker: the sweep goes
\* over the trades of every instrument.
RECURSIVE UpdateMarketAnySymbolFrom(_, _, _, _, _)
UpdateMarketAnySymbolFrom(pf, snapshot, k, price, time) ==
    IF k > Len(snapshot) THEN pf
    ELSE LET trade == Lookup(pf.trades_open, snapshot[k].trade_id)
             chk   == CheckExit(trade, price, time)
             pf1   == [pf EXCEPT !.trades_open = Mutate(pf.trades_open, chk.trade)]
         IN  IF chk.closed
             THEN UpdateMarketAnySymbolFrom(SettleTrade(pf1, chk.trade).pf, snapshot, k + 1,
                                            price, time)
             ELSE UpdateMarketAnySymbolFrom(pf1, snapshot, k + 1, price, time)

UpdateMarketAnySymbol(pf, symbol, price, time) ==
    UpdateMarketAnySymbolFrom(pf, pf.trades_open, 1, price, time)

\* A mutant of update_market that runs no stop-loss/take-profit sweep.
UpdateMarketSkipped(pf, symbol, price, time) == pf

\* Portfolio.update_market(symbol, price, time)
UpdateMarket(pf, symbol, price, time) ==
    UpdateMarketFrom(pf, pf.trades_open, 1, symbol, price, time)

\* Portfolio.close_trade(trade_id, price, time): when Trade.close raises, the
\* trade stays in trades_open (already marked closed) and is not settled.
CloseTrade(pf, trade_id, price, time) ==
    IF ~HasKey(pf.trades_open, trade_id)
    THEN [pf |-> pf, raised |-> ""]
    ELSE LET c   == Close(Lookup(pf.trades_open, trade_id), price, time)
             pf1 == [pf EXCEPT !.trades_open = Mutate(pf.trades_open, c.trade)]
         IN  IF c.raised # ""
             THEN [pf |-> pf1, raised |-> c.raised]
             ELSE SettleTrade(pf1, c.trade)

\* A mutant of equity's loop that also counts trades whose instrument has a
\* price under another key (falls back to any known price).
RECURSIVE EquityAnyPriceFrom(_, _, _, _)
EquityAnyPriceFrom(trades, k, current_prices, acc) ==
    IF k > Len(trades) THEN [value |-> acc, raised |-> ""]
    ELSE IF DOMAIN current_prices # {}
    THEN LET key == IF trades[k].ticker \in DOMAIN current_prices
                    THEN trades[k].ticker
                    ELSE CHOOSE x \in DOMAIN current_prices : TRUE
             u == UnrealizedPnl(trades[k], current_prices[key])
         IN  IF u.raised # ""
             THEN [value |-> acc, raised |-> u.raised]
             ELSE EquityAnyPriceFrom(trades, k + 1, current_prices, RAdd(acc, u.value))
    ELSE EquityAnyPriceFrom(trades, k + 1, current_prices, acc)

\* Portfolio.equity(current_prices); current_prices is a function from the
\* instruments that have a price to that price.
RECURSIVE EquityFrom(_, _, _, _)
EquityFrom(trades, k, current_prices, acc) ==
    IF k > Len(trades) THEN [value |-> acc, raised |-> ""]
    ELSE IF trades[k].ticker \in DOMAIN current_prices
    THEN LET u == UnrealizedPnl(trades[k], current_prices[trades[k].ticker])
         IN  IF u.raised # ""
             THEN [value |-> acc, raised |-> u.raised]
             ELSE EquityFrom(trades, k + 1, current_prices, RAdd(acc, u.value))
    ELSE EquityFrom(trades, k + 1, current_prices, acc)

\* A mutant of equity that starts from the initial capital, not from the cash.
EquityFromCapital(pf, current_prices) ==
    EquityFrom(pf.trades_open, 1, current_prices, pf.initial_capital)

Equity(pf, current_prices) == EquityFrom(pf.trades_open, 1, current_prices, pf.cash)

(***************************************************************************)
(* State                                                                   *)
(***************************************************************************)
VARIABLES
    portfolio,   \* the ledger Portfolio object
    uuid,        \* number of trade ids drawn so far (uuid4 never repeats)
    call,        \* the last call made on the portfolio API, with its outcome
    ncalls,      \* number of API calls made
    cash_log,    \* portfolio.cash at construction and after each API call
    \* BacktestEngine.run of the ledger variant
    strategy,        \* the SMACrossoverStrategy: instrument and windows
    run_args,        \* arguments of run: data, cash_per_trade, stop_loss, take_profit
    signals,         \* the series generate_signals returned
    equity_history,  \* the list run appends to
    equity_curve,    \* engine.equity_curve: <<timestamp, equity>> pairs
    i,               \* position of the loop in the series (timestamp of the bar)
    pc,              \* position of run within the loop body
    bar_price,       \* locals of the loop body: price, has_long, has_short
    has_long,
    has_short,
    bar_open,        \* trades_open as it was when the current bar began
    \* BacktestEngine.run_backtest of the positions variant
    variant,         \* which program runs: "ledger", "positions" or "api"
    pos,             \* the positions Portfolio object
    bar_signal,      \* local `signal` of run_backtest: the signal of the current bar
    results,         \* engine.transactions and engine.equity_curve
    raised,          \* the exception that ended the run, "" if none
    \* what lies outside the portfolio and the engines
    the_trade,       \* a Trade object a client holds and calls directly
    stdout,          \* what run / run_backtest printed about the data it was given
    metrics          \* the last call of a performance metric: its arguments and outcome

ledgerVars == <<portfolio, uuid, call, ncalls, cash_log>>
engineVars == <<strategy, run_args, signals, equity_history, equity_curve, i, pc,
                bar_price, has_long, has_short, bar_open>>
posVars == <<variant, pos, bar_signal, results, raised>>
outVars == <<the_trade, stdout, metrics>>
vars == <<ledgerVars, engineVars, posVars, outVars>>

(***************************************************************************)
(* Ledger variant: SMACrossoverStrategy                                    *)
(* (src/antique_version/strategies/sma_crossover.py)                       *)
(***************************************************************************)
Max(a, b) == IF a >= b THEN a ELSE b

RECURSIVE SumRange(_, _, _)
SumRange(series, lo, hi) ==
    IF lo > hi THEN Zero ELSE RAdd(series[lo], SumRange(series, lo + 1, hi))

\* A mutant of the rolling mean whose window is centred: it reaches one bar
\* past k when there is one.
RollingMeanCentred(series, k, window) ==
    LET hi == IF k < Len(series) THEN k + 1 ELSE k
        lo == Max(1, hi - window + 1)
    IN  RDiv(SumRange(series, lo, hi), R(hi - lo + 1))

\* series.rolling(window, min_periods=1).mean() at position k: the mean of the
\* bars of the window that ends at k, as many as there are.
RollingMean(series, k, window) ==
    LET lo == Max(1, k - window + 1)
    IN  RDiv(SumRange(series, lo, k), R(k - lo + 1))

SignalAt(data, k, short_window, long_window) ==
    LET short_ma == RollingMean(data, k, short_window)
        long_ma  == RollingMean(data, k, long_window)
    IN  IF RLt(long_ma, short_ma) THEN 1
        ELSE IF RLt(short_ma, long_ma) THEN -1
        ELSE 0

\* SMACrossoverStrategy.generate_signals(data)
GenerateSignals(data, short_window, long_window) ==
    [k \in 1..Len(data) |-> SignalAt(data, k, short_window, long_window)]

(***************************************************************************)
(* Ledger variant: BacktestEngine.run                                      *)
(* (src/antique_version/backtest/engine.py)                                *)
(***************************************************************************)
\* directions = {t.direction for t in trades_open.values() if t.ticker == instrument}
HeldDirections(pf, instrument) ==
    {pf.trades_open[k].direction :
        k \in {j \in DOMAIN pf.trades_open : pf.trades_open[j].ticker = instrument}}

\* for t_id, t in list(trades_open.items()):
\*     if t.ticker == instrument and t.direction == direction: close_trade(...)
RECURSIVE CloseAllFrom(_, _, _, _, _, _, _)
CloseAllFrom(pf, snapshot, k, instrument, direction, px, time) ==
    IF k > Len(snapshot) THEN pf
    ELSE IF snapshot[k].ticker = instrument /\ snapshot[k].direction = direction
    THEN CloseAllFrom(CloseTrade(pf, snapshot[k].trade_id, px, time).pf, snapshot,
                      k + 1, instrument, direction, px, time)
    ELSE CloseAllFrom(pf, snapshot, k + 1, instrument, direction, px, time)

\* A mutant of the entry that gives a short the levels of a long.
EnterLongLevels(pf, trade_id, instrument, direction, px, time, args) ==
    LET alloc_cash == RMin(args.cash_per_trade, pf.cash)
        size == RDiv(alloc_cash, px)
        sl   == IF IsNone(args.stop_loss) THEN None
                ELSE RMul(px, RSub(R(1), args.stop_loss))
        tp   == IF IsNone(args.take_profit) THEN None
                ELSE RMul(px, RAdd(R(1), args.take_profit))
    IN  IF RLt(Zero, alloc_cash)
        THEN LET r == OpenTrade(pf, trade_id, instrument, direction, px, size, sl, tp, time)
             IN  [pf |-> r.pf, ret |-> r.ret, called |-> TRUE, before |-> pf]
        ELSE [pf |-> pf, ret |-> 0, called |-> FALSE, before |-> pf]

\* The entry of one direction (lines 72-85 for a long, 95-108 for a short):
\* sizes the trade from cash_per_trade and the cash, derives SL and TP.
\* Returns the portfolio, the trade_id open_trade returned (0: None, or no
\* call), and the portfolio as open_trade received it.
Enter(pf, trade_id, instrument, direction, px, time, args) ==
    LET alloc_cash == RMin(args.cash_per_trade, pf.cash)
        sgn  == IF direction = "long" THEN 1 ELSE -1
        size == RDiv(alloc_cash, px)
        sl   == IF IsNone(args.stop_loss) THEN None
                ELSE RMul(px, RSub(R(1), RMul(R(sgn), args.stop_loss)))
        tp   == IF IsNone(args.take_profit) THEN None
                ELSE RMul(px, RAdd(R(1), RMul(R(sgn), args.take_profit)))
    IN  IF RLt(Zero, alloc_cash)
        THEN LET r == OpenTrade(pf, trade_id, instrument, direction, px, size, sl, tp, time)
             IN  [pf |-> r.pf, ret |-> r.ret, called |-> TRUE, before |-> pf]
        ELSE [pf |-> pf, ret |-> 0, called |-> FALSE, before |-> pf]

\* A mutant of step 2 that leaves the opposite side open.
ApplySignalKeepsOpposite(pf, trade_id, signal, instrument, px, time, args, hasLong, hasShort) ==
    IF signal = 1 /\ ~hasLong
    THEN Enter(pf, trade_id, instrument, "long", px, time, args)
    ELSE IF signal = -1 /\ ~hasShort
    THEN Enter(pf, trade_id, instrument, "short", px, time, args)
    ELSE [pf |-> pf, ret |-> 0, called |-> FALSE, before |-> pf]

\* A mutant of step 2 that sizes and opens the new trade before it closes the
\* opposite side.
ApplySignalEntersFirst(pf, trade_id, signal, instrument, px, time, args, hasLong, hasShort) ==
    IF signal \in {1, -1}
    THEN LET side  == IF signal = 1 THEN "long" ELSE "short"
             other == IF signal = 1 THEN "short" ELSE "long"
             held      == IF signal = 1 THEN hasLong ELSE hasShort
             heldOther == IF signal = 1 THEN hasShort ELSE hasLong
             e == IF ~held THEN Enter(pf, trade_id, instrument, side, px, time, args)
                  ELSE [pf |-> pf, ret |-> 0, called |-> FALSE, before |-> pf]
         IN  [e EXCEPT !.pf = IF heldOther
                               THEN CloseAllFrom(e.pf, pf.trades_open, 1, instrument, other,
                                                 px, time)
                               ELSE e.pf]
    ELSE [pf |-> pf, ret |-> 0, called |-> FALSE, before |-> pf]

\* A mutant of step 2 that treats a flat signal as an exit.
ApplySignalFlatExits(pf, trade_id, signal, instrument, px, time, args, hasLong, hasShort) ==
    IF signal = 1
    THEN LET pf1 == IF hasShort
                    THEN CloseAllFrom(pf, pf.trades_open, 1, instrument, "short", px, time)
                    ELSE pf
         IN  IF ~hasLong
             THEN Enter(pf1, trade_id, instrument, "long", px, time, args)
             ELSE [pf |-> pf1, ret |-> 0, called |-> FALSE, before |-> pf1]
    ELSE IF signal = -1
    THEN LET pf1 == IF hasLong
                    THEN CloseAllFrom(pf, pf.trades_open, 1, instrument, "long", px, time)
                    ELSE pf
         IN  IF ~hasShort
             THEN Enter(pf1, trade_id, instrument, "short", px, time, args)
             ELSE [pf |-> pf1, ret |-> 0, called |-> FALSE, before |-> pf1]
    ELSE LET pf1 == CloseAllFrom(pf, pf.trades_open, 1, instrument, "long", px, time)
             pf2 == CloseAllFrom(pf1, pf1.trades_open, 1, instrument, "short", px, time)
         IN  [pf |-> pf2, ret |-> 0, called |-> FALSE, before |-> pf2]

\* A mutant of step 2 whose closing loop runs after the entry and forgets the
\* direction: it closes the opposite side and the trade just opened.
ApplySignalClosesEntry(pf, trade_id, signal, instrument, px, time, args, hasLong, hasShort) ==
    IF signal \in {1, -1}
    THEN LET side == IF signal = 1 THEN "long" ELSE "short"
             held == IF signal = 1 THEN hasLong ELSE hasShort
             r    == IF ~held THEN Enter(pf, trade_id, instrument, side, px, time, args)
                     ELSE [pf |-> pf, ret |-> 0, called |-> FALSE, before |-> pf]
             pf1  == CloseAllFrom(r.pf, r.pf.trades_open, 1, instrument, "long", px, time)
             pf2  == CloseAllFrom(pf1, pf1.trades_open, 1, instrument, "short", px, time)
         IN  [pf |-> pf2, ret |-> 0, called |-> r.called, before |-> r.before]
    ELSE [pf |-> pf, ret |-> 0, called |-> FALSE, before |-> pf]

\* A mutant of step 2 that enters whether or not a trade of the signal's
\* side is held.
ApplySignalAlwaysEnters(pf, trade_id, signal, instrument, px, time, args, hasLong, hasShort) ==
    IF signal = 1
    THEN LET pf1 == IF hasShort
                    THEN CloseAllFrom(pf, pf.trades_open, 1, instrument, "short", px, time)
                    ELSE pf
         IN  Enter(pf1, trade_id, instrument, "long", px, time, args)
    ELSE IF signal = -1
    THEN LET pf1 == IF hasLong
                    THEN CloseAllFrom(pf, pf.trades_open, 1, instrument, "long", px, time)
                    ELSE pf
         IN  Enter(pf1, trade_id, instrument, "short", px, time, args)
    ELSE [pf |-> pf, ret |-> 0, called |-> FALSE, before |-> pf]

\* Step 2 of the loop body (lines 62-108): close the opposite side, then
\* enter if no trade of the signal's side was held.
ApplySignal(pf, trade_id, signal, instrument, px, time, args, hasLong, hasShort) ==
    IF signal = 1
    THEN LET pf1 == IF hasShort
                    THEN CloseAllFrom(pf, pf.trades_open, 1, instrument, "short", px, time)
                    ELSE pf
         IN  IF ~hasLong
             THEN Enter(pf1, trade_id, instrument, "long", px, time, args)
             ELSE [pf |-> pf1, ret |-> 0, called |-> FALSE, before |-> pf1]
    ELSE IF signal = -1
    THEN LET pf1 == IF hasLong
                    THEN CloseAllFrom(pf, pf.trades_open, 1, instrument, "long", px, time)
                    ELSE pf
         IN  IF ~hasShort
             THEN Enter(pf1, trade_id, instrument, "short", px, time, args)
             ELSE [pf |-> pf1, ret |-> 0, called |-> FALSE, before |-> pf1]
    ELSE [pf |-> pf, ret |-> 0, called |-> FALSE, before |-> pf]

(***************************************************************************)
(* Positions variant: Trade, Transaction, Portfolio                        *)
(* (src/trade.py, src/transactions.py, src/portfolio.py)                   *)
(***************************************************************************)
TradeQuantity == 150

\* Trade(timestamp, type, asset, quantity, entry_price) with the dataclass
\* defaults stop_loss = 0.02, take_profit = 0.04, is_open = False.
PTrade(timestamp, type, asset, quantity, entry_price) ==
    [timestamp |-> timestamp, type |-> type, asset |-> asset, quantity |-> quantity,
     entry_price |-> entry_price, stop_loss |-> Frac(1, 50), take_profit |-> Frac(1, 25),
     is_open |-> FALSE]

Transaction(timestamp, type, asset, quantity, px) ==
    [timestamp |-> timestamp, type |-> type, asset |-> asset, quantity |-> quantity,
     price |-> px]

NewPositionsPortfolio(initial_capital) ==
    [initial_capital |-> initial_capital,
     current_capital |-> initial_capital,
     positions       |-> << >>,
     transactions    |-> << >>,
     trades          |-> << >>,
     equity_curve    |-> << >>]

\* positions.get(asset, 0)
PositionOf(pf, asset) ==
    IF asset \in DOMAIN pf.positions THEN pf.positions[asset] ELSE Zero

SetPosition(pf, asset, qty) ==
    [x \in DOMAIN pf.positions \cup {asset} |-> IF x = asset THEN qty ELSE pf.positions[x]]

\* Portfolio.calculate_equity(current_prices, timestamp):
\* equity_curve.at[timestamp] = current_capital + sum(qty * price)
RECURSIVE PositionsValue(_, _, _)
PositionsValue(positions, assets, current_prices) ==
    IF assets = {} THEN Zero
    ELSE LET a == CHOOSE x \in assets : TRUE
             v == IF a \in DOMAIN current_prices
                  THEN RMul(positions[a], current_prices[a]) ELSE Zero
         IN  RAdd(v, PositionsValue(positions, assets \ {a}, current_prices))

CurrentEquity(pf, current_prices) ==
    RAdd(pf.current_capital,
         PositionsValue(pf.positions, DOMAIN pf.positions, current_prices))

\* Series.at[timestamp] = value: overwrites the entry of that timestamp or
\* appends a new one.
SeriesAt(series, timestamp, value) ==
    IF \E k \in DOMAIN series : series[k].timestamp = timestamp
    THEN [k \in DOMAIN series |->
            IF series[k].timestamp = timestamp
            THEN [timestamp |-> timestamp, equity |-> value] ELSE series[k]]
    ELSE Append(series, [timestamp |-> timestamp, equity |-> value])

CalculateEquity(pf, current_prices, timestamp) ==
    [pf EXCEPT !.equity_curve =
        SeriesAt(pf.equity_curve, timestamp, CurrentEquity(pf, current_prices))]

\* A mutant of handle_signal whose LONG entry takes the units and leaves the
\* capital as it was.
HandleSignalFreeLong(pf, sig, timestamp, asset_symbol, px, all_prices) ==
    IF sig = "LONG"
    THEN LET long_trade == PTrade(timestamp, "LONG", asset_symbol, R(TradeQuantity), px)
             cost == RMul(long_trade.quantity, long_trade.entry_price)
         IN  IF RLe(cost, pf.current_capital)
             THEN LET opened == [long_trade EXCEPT !.is_open = TRUE]
                      pf1 == [pf EXCEPT
                                !.transactions = Append(pf.transactions,
                                    Transaction(timestamp, "LONG", asset_symbol,
                                                opened.quantity, px)),
                                !.trades = Append(pf.trades, opened),
                                !.current_capital = pf.current_capital,
                                !.positions = SetPosition(pf, asset_symbol,
                                    RAdd(PositionOf(pf, asset_symbol), opened.quantity))]
                  IN  [pf |-> CalculateEquity(pf1, all_prices, timestamp), raised |-> ""]
             ELSE [pf |-> pf, raised |-> "UnboundLocalError"]
    ELSE IF sig = "SHORT"
    THEN LET short_trade == [PTrade(timestamp, "SHORT", asset_symbol, R(TradeQuantity), px)
                                EXCEPT !.is_open = TRUE]
             revenue == RMul(short_trade.quantity, short_trade.entry_price)
             pf1 == [pf EXCEPT
                        !.trades = Append(pf.trades, short_trade),
                        !.current_capital = RAdd(pf.current_capital, revenue),
                        !.positions = SetPosition(pf, asset_symbol,
                            RSub(PositionOf(pf, asset_symbol), short_trade.quantity)),
                        !.transactions = Append(pf.transactions,
                            Transaction(timestamp, "SHORT", asset_symbol,
                                        short_trade.quantity, px))]
         IN  [pf |-> CalculateEquity(pf1, all_prices, timestamp), raised |-> ""]
    ELSE [pf |-> CalculateEquity(pf, all_prices, timestamp), raised |-> ""]

\* Portfolio.handle_signal(signal, timestamp, asset_symbol, price, all_prices).
\* In the LONG branch `quantity` is bound only when the funds suffice: the
\* else branch formats it into its message and raises UnboundLocalError.
HandleSignal(pf, sig, timestamp, asset_symbol, px, all_prices) ==
    IF sig = "LONG"
    THEN LET long_trade == PTrade(timestamp, "LONG", asset_symbol, R(TradeQuantity), px)
             cost == RMul(long_trade.quantity, long_trade.entry_price)
         IN  IF RLe(cost, pf.current_capital)
             THEN LET opened == [long_trade EXCEPT !.is_open = TRUE]
                      pf1 == [pf EXCEPT
                                !.transactions = Append(pf.transactions,
                                    Transaction(timestamp, "LONG", asset_symbol,
                                                opened.quantity, px)),
                                !.trades = Append(pf.trades, opened),
                                !.current_capital = RSub(pf.current_capital, cost),
                                !.positions = SetPosition(pf, asset_symbol,
                                    RAdd(PositionOf(pf, asset_symbol), opened.quantity))]
                  IN  [pf |-> CalculateEquity(pf1, all_prices, timestamp), raised |-> ""]
             ELSE [pf |-> pf, raised |-> "UnboundLocalError"]
    ELSE IF sig = "SHORT"
    THEN LET short_trade == [PTrade(timestamp, "SHORT", asset_symbol, R(TradeQuantity), px)
                                EXCEPT !.is_open = TRUE]
             revenue == RMul(short_trade.quantity, short_trade.entry_price)
             pf1 == [pf EXCEPT
                        !.trades = Append(pf.trades, short_trade),
                        !.current_capital = RAdd(pf.current_capital, revenue),
                        !.positions = SetPosition(pf, asset_symbol,
                            RSub(PositionOf(pf, asset_symbol), short_trade.quantity)),
                        !.transactions = Append(pf.transactions,
                            Transaction(timestamp, "SHORT", asset_symbol,
                                        short_trade.quantity, px))]
         IN  [pf |-> CalculateEquity(pf1, all_prices, timestamp), raised |-> ""]
    ELSE [pf |-> CalculateEquity(pf, all_prices, timestamp), raised |-> ""]

\* list.remove(x): drops the first element equal to x.
RemoveFirst(list, x) ==
    LET k == CHOOSE j \in DOMAIN list : list[j] = x /\ \A h \in 1..(j - 1) : list[h] # x
    IN  [j \in 1..(Len(list) - 1) |-> IF j < k THEN list[j] ELSE list[j + 1]]

\* The relative gain of a trade at a price, as check_TP_SL computes it.
RelativePnl(trade, px) ==
    IF trade.type = "LONG"
    THEN RDiv(RSub(px, trade.entry_price), trade.entry_price)
    ELSE RDiv(RSub(trade.entry_price, px), trade.entry_price)

TpOrSlMet(trade, px) ==
    LET pnl == RelativePnl(trade, px)
    IN  \/ RLe(trade.take_profit, pnl)
        \/ RLe(pnl, RSub(Zero, trade.stop_loss))

\* Portfolio.check_TP_SL(current_prices, timestamp): `for trade in self.trades`
\* walks the list by position while the body removes from the same list, so
\* the element that follows a removed one is stepped over.  idx is the
\* iterator's position (1-based).
RECURSIVE CheckTPSLFrom(_, _, _, _)
CheckTPSLFrom(pf, idx, current_prices, timestamp) ==
    IF idx > Len(pf.trades) THEN pf
    ELSE LET trade == pf.trades[idx]
             px == current_prices[trade.asset]
             pnl == RelativePnl(trade, px)
             close_type == IF RLe(trade.take_profit, pnl) THEN "TP" ELSE "SL"
             sgn == IF trade.type = "LONG" THEN 1 ELSE -1
         IN  IF trade.type \in {"LONG", "SHORT"} /\ TpOrSlMet(trade, px)
             THEN CheckTPSLFrom(
                    [pf EXCEPT
                        !.positions = SetPosition(pf, trade.asset,
                            RSub(PositionOf(pf, trade.asset),
                                 RMul(R(sgn), trade.quantity))),
                        !.current_capital = RAdd(pf.current_capital,
                            RMul(R(sgn), RMul(trade.quantity, px))),
                        !.trades = RemoveFirst(pf.trades, trade),
                        !.transactions = Append(pf.transactions,
                            Transaction(timestamp, close_type, trade.asset,
                                        trade.quantity, px))],
                    idx + 1, current_prices, timestamp)
             ELSE CheckTPSLFrom(pf, idx + 1, current_prices, timestamp)

\* A mutant of check_TP_SL that closes trades without touching positions.
CheckTPSLKeepsPositions(pf, current_prices, timestamp) ==
    [CheckTPSLFrom(pf, 1, current_prices, timestamp) EXCEPT !.positions = pf.positions]

CheckTPSL(pf, current_prices, timestamp) == CheckTPSLFrom(pf, 1, current_prices, timestamp)

(***************************************************************************)
(* Positions variant: SMACrossoverStrategy (src/sma_strategy.py)           *)
(***************************************************************************)
\* data['Close'].rolling(window).mean() at position k: NaN (None here) until
\* the window is full.
FullRollingMean(series, k, window) ==
    IF k < window \/ k < 1 THEN None
    ELSE RDiv(SumRange(series, k - window + 1, k), R(window))

\* A comparison with NaN is false.
NanLt(a, b) == ~IsNone(a) /\ ~IsNone(b) /\ RLt(a, b)
NanLe(a, b) == ~IsNone(a) /\ ~IsNone(b) /\ RLe(a, b)

\* data['Close'].ewm(span=span, adjust=False).mean() at bar k:
\* y[1] = x[1], y[k] = (1 - alpha) * y[k-1] + alpha * x[k], alpha = 2 / (span + 1)
RECURSIVE Ewm(_, _, _)
Ewm(series, k, span) ==
    IF k = 1 THEN series[1]
    ELSE LET alpha == Frac(2, span + 1)
         IN  RAdd(RMul(RSub(R(1), alpha), Ewm(series, k - 1, span)), RMul(alpha, series[k]))

\* EMACrossoverStrategy.generate_signals(data), data being the bars seen so far.
EMASignal(data, short_window, long_window) ==
    IF Len(data) < long_window THEN "HOLD"
    ELSE LET n == Len(data)
             latest_short_ema   == Ewm(data, n, short_window)
             latest_long_ema    == Ewm(data, n, long_window)
             previous_short_ema == Ewm(data, n - 1, short_window)
             previous_long_ema  == Ewm(data, n - 1, long_window)
         IN  IF RLe(previous_short_ema, previous_long_ema)
                /\ RLt(latest_long_ema, latest_short_ema)
             THEN "LONG"
             ELSE IF RLe(previous_long_ema, previous_short_ema)
                     /\ RLt(latest_short_ema, latest_long_ema)
             THEN "SHORT"
             ELSE "HOLD"

\* SMACrossoverStrategy.generate_signals(data), data being the bars seen so far.
PositionsSignal(data, short_window, long_window) ==
    IF Len(data) < long_window THEN "HOLD"
    ELSE LET n == Len(data)
             latest_short_sma   == FullRollingMean(data, n, short_window)
             latest_long_sma    == FullRollingMean(data, n, long_window)
             previous_short_sma == FullRollingMean(data, n - 1, short_window)
             previous_long_sma  == FullRollingMean(data, n - 1, long_window)
         IN  IF NanLe(previous_short_sma, previous_long_sma)
                /\ NanLt(latest_long_sma, latest_short_sma)
             THEN "LONG"
             ELSE IF NanLe(previous_long_sma, previous_short_sma)
                     /\ NanLt(latest_short_sma, latest_long_sma)
             THEN "SHORT"
             ELSE "HOLD"

\* Portfolio.get_results(): the transactions and the equity curve as they are.
PortfolioGetResults(pf) ==
    [set |-> TRUE, transactions |-> pf.transactions, equity_curve |-> pf.equity_curve]

\* print("Backtest cannot run. No data loaded.")
NoDataNotice == "Backtest cannot run. No data loaded."

NoResults == [set |-> FALSE, transactions |-> << >>, equity_curve |-> << >>]

\* BacktestEngine.get_results(): (None, None) until run_backtest has stored
\* its results.
EngineGetResults(res) == IF res.set THEN res ELSE NoResults

(***************************************************************************)
(* Performance metrics (src/core/metrics.py, src/performance_analyzer.py)  *)
(* A float is a rational, NaN (None) or an infinity.  A result that needs  *)
(* a root or a power is kept as the exact expression it is the value of.   *)
(***************************************************************************)
NaN == None
Inf == [n |-> 1, d |-> 0]
NegInf == [n |-> -1, d |-> 0]
IsNaN(x) == x.d = 0 /\ x.n = 0
IsFinite(x) == x.d # 0

\* a / b of two finite floats: division by zero gives nan or an infinity.
FDiv(a, b) ==
    IF b.n # 0 THEN RDiv(a, b)
    ELSE IF a.n = 0 THEN NaN
    ELSE IF a.n > 0 THEN Inf ELSE NegInf

\* a - b and a + b of floats
FAdd(a, b) ==
    IF IsFinite(a) /\ IsFinite(b) THEN RAdd(a, b)
    ELSE IF IsNaN(a) \/ IsNaN(b) THEN NaN
    ELSE IF IsFinite(b) THEN a
    ELSE IF IsFinite(a) THEN b
    ELSE IF a = b THEN a ELSE NaN
FNeg(a) == [n |-> -a.n, d |-> a.d]
FSub(a, b) == FAdd(a, FNeg(b))

\* The value of a metric: the float x ("num"), y * sqrt(x) ("times_sqrt")
\* or x ** y - 1 ("pow_minus_1").
Num(x) == [kind |-> "num", x |-> x, y |-> NaN]
NoValue == [kind |-> "", x |-> NaN, y |-> NaN]

RECURSIVE SeriesSum(_, _)
SeriesSum(series, k) ==
    IF k = 0 THEN Zero ELSE FAdd(SeriesSum(series, k - 1), series[k])

\* Series.mean(): nan for an empty series.
SeriesMean(series) ==
    LET total == SeriesSum(series, Len(series))
    IN  IF Len(series) = 0 THEN NaN
        ELSE IF IsFinite(total) THEN RDiv(total, R(Len(series)))
        ELSE total

\* Series.std() ** 2, the sample variance (ddof=1): nan for fewer than two
\* elements.
SeriesVar(series) ==
    LET n    == Len(series)
        mean == SeriesMean(series)
        sq   == [k \in 1..n |-> RMul(RSub(series[k], mean), RSub(series[k], mean))]
    IN  IF n < 2 THEN NaN
        ELSE IF ~IsFinite(mean) \/ \E k \in 1..n : ~IsFinite(series[k]) THEN NaN
        ELSE RDiv(SeriesSum(sq, n), R(n - 1))

\* Series.min(), skipping nan: nan when nothing is left.
RECURSIVE SeriesMin(_, _)
SeriesMin(series, k) ==
    IF k = 0 THEN NaN
    ELSE LET rest == SeriesMin(series, k - 1)
         IN  IF IsNaN(series[k]) THEN rest
             ELSE IF IsNaN(rest) THEN series[k]
             ELSE IF RLt(series[k], rest) THEN series[k] ELSE rest

\* equity_curve.cummax() at k
RECURSIVE CumMax(_, _)
CumMax(series, k) ==
    IF k = 1 THEN series[1]
    ELSE LET before == CumMax(series, k - 1)
         IN  IF RLt(before, series[k]) THEN series[k] ELSE before

RECURSIVE DropNa(_)
DropNa(series) ==
    IF Len(series) = 0 THEN << >>
    ELSE IF IsNaN(Head(series)) THEN DropNa(Tail(series))
    ELSE <<Head(series)>> \o DropNa(Tail(series))

\* compute_returns: equity_curve.pct_change().dropna()
ComputeReturns(curve) ==
    DropNa([k \in 1..Len(curve) |->
               IF k = 1 THEN NaN
               ELSE FSub(FDiv(curve[k], curve[k - 1]), R(1))])

\* (mean / std) * sqrt(periods_per_year), std being sqrt(var)
SharpeValue(mean, var, periods_per_year) ==
    IF IsNaN(mean) \/ IsNaN(var) THEN Num(NaN)
    ELSE [kind |-> "times_sqrt", x |-> RDiv(R(periods_per_year), var), y |-> mean]

\* sharpe_ratio(returns, risk_free_rate, periods_per_year)
SharpeRatio(returns, risk_free_rate, periods_per_year) ==
    LET per_period == RDiv(risk_free_rate, R(periods_per_year))
        excess_returns == [k \in 1..Len(returns) |-> FSub(returns[k], per_period)]
        mean == SeriesMean(excess_returns)
        var  == SeriesVar(excess_returns)
    IN  IF var = Zero THEN Num(Zero)
        ELSE SharpeValue(mean, var, periods_per_year)

\* A mutant of max_drawdown that forgets the "- 1.0".
MaxDrawdownRatio(curve) ==
    LET drawdown == [k \in 1..Len(curve) |->
                        FDiv(curve[k], CumMax(curve, k))]
    IN  Num(SeriesMin(drawdown, Len(curve)))

\* max_drawdown(equity_curve)
MaxDrawdown(curve) ==
    LET drawdown == [k \in 1..Len(curve) |->
                        FSub(FDiv(curve[k], CumMax(curve, k)), R(1))]
    IN  Num(SeriesMin(drawdown, Len(curve)))

\* cagr(equity_curve, periods_per_year): iloc[0] of an empty curve raises
\* before the duration is looked at.
Cagr(curve, periods_per_year) ==
    LET n_periods == Len(curve)
        years     == Frac(n_periods, Abs(periods_per_year))
        ratio     == FDiv(curve[n_periods], curve[1])
    IN  IF n_periods = 0 THEN [value |-> NoValue, raised |-> "IndexError"]
        ELSE IF periods_per_year < 0 \/ years = Zero
             THEN [value |-> Num(Zero), raised |-> ""]
        ELSE [value |-> [kind |-> "pow_minus_1", x |-> ratio,
                         y |-> Frac(periods_per_year, n_periods)],
              raised |-> ""]

NoSummary == [set |-> FALSE, sharpe_ratio |-> NoValue, max_drawdown |-> NoValue,
              cagr |-> NoValue, total_return |-> NoValue]

\* summarize_performance(equity_curve, risk_free_rate, periods_per_year)
SummarizePerformance(curve, risk_free_rate, periods_per_year) ==
    LET returns == ComputeReturns(curve)
        growth  == Cagr(curve, periods_per_year)
    IN  IF growth.raised # "" THEN [summary |-> NoSummary, raised |-> growth.raised]
        ELSE [summary |->
                 [set |-> TRUE,
                  sharpe_ratio |-> SharpeRatio(returns, risk_free_rate, periods_per_year),
                  max_drawdown |-> MaxDrawdown(curve),
                  cagr |-> growth.value,
                  total_return |-> Num(FSub(FDiv(curve[Len(curve)],
                                                 curve[1]), R(1)))],
              raised |-> ""]

\* PerformanceAnalyzer.calculate_metrics: its drawdown and its Sharpe ratio,
\* {} for a curve of fewer than two points.  The daily risk-free rate is
\* 0.04 / 252.
DailyRiskFree == Frac(1, 6300)
TradingDays == 252

AnalyzerMaxDrawdown(curve) ==
    LET drawdown == [k \in 1..Len(curve) |->
                        FDiv(RSub(curve[k], CumMax(curve, k)),
                             CumMax(curve, k))]
    IN  Num(SeriesMin(drawdown, Len(curve)))

AnalyzerSharpe(curve) ==
    LET daily_returns == ComputeReturns(curve)
        excess == [k \in 1..Len(daily_returns) |-> FSub(daily_returns[k], DailyRiskFree)]
        var    == SeriesVar(excess)
    IN  IF var # Zero THEN SharpeValue(SeriesMean(excess), var, TradingDays)
        ELSE Num(Zero)

CalculateMetrics(curve) ==
    IF Len(curve) < 2 THEN NoSummary
    ELSE [set |-> TRUE,
          sharpe_ratio |-> AnalyzerSharpe(curve),
          max_drawdown |-> AnalyzerMaxDrawdown(curve),
          cagr |-> [kind |-> "pow_minus_1",
                    x |-> FDiv(curve[Len(curve)], curve[1]),
                    y |-> Frac(TradingDays, Len(curve))],
          total_return |-> Num(FDiv(RSub(curve[Len(curve)], curve[1]),
                                    curve[1]))]

NoMetrics == [op |-> "", equity_curve |-> << >>, returns |-> << >>,
              risk_free_rate |-> Zero, periods_per_year |-> 0,
              value |-> NoValue, summary |-> NoSummary, raised |-> ""]

(***************************************************************************)
(* Spec: a client calling the ledger Portfolio / Trade API in any order    *)
(***************************************************************************)
MaxCalls == 3

Symbols == {"SPY", "QQQ"}
Directions == {"long", "short", "flat"}
MarketPrices == {R(1), R(2), R(3), R(5)}
ClosePrices == {R(1), R(2), R(5)}
StopPairs == {<<None, None>>, <<R(1), R(3)>>, <<R(3), R(1)>>, <<None, R(3)>>}
FewStopPairs == {<<None, None>>, <<R(1), R(3)>>}
ApiCapital == R(4)

\* Arguments of open_trade: ordinary entries, and degenerate prices and sizes.
OpenArgs ==
    [symbol : {"SPY"}, direction : {"long", "short"}, entry_price : {R(2)},
     size : {R(1), R(3)}, stops : StopPairs]
    \cup [symbol : {"SPY"}, direction : Directions \ {"long", "short"},
          entry_price : {R(2)}, size : {R(1)}, stops : FewStopPairs]
    \cup [symbol : {"QQQ"}, direction : {"long"}, entry_price : {R(2)},
          size : {R(1)}, stops : FewStopPairs]
    \cup [symbol : {"SPY"}, direction : {"long"}, entry_price : {R(5)},
          size : {R(1)}, stops : FewStopPairs]
    \cup [symbol : {"SPY"}, direction : {"long"}, entry_price : {R(0), R(-1)},
          size : {R(1), R(-1)}, stops : {<<None, None>>}]
    \cup [symbol : {"SPY"}, direction : {"long"}, entry_price : {R(2)},
          size : {R(0), R(-1)}, stops : {<<None, None>>}]

\* Timestamps a caller passes: the current one, or a stale one.
Times == {1, ncalls + 1}

\* current_prices dictionaries: a price for some of the instruments.
PriceMaps == UNION {[S -> {R(1), R(3)}] : S \in SUBSET Symbols}

\* Every Trade object the client can hold a reference to.
HeldTrades ==
    {portfolio.trades_open[k] : k \in DOMAIN portfolio.trades_open}
    \cup {portfolio.trades_closed[k] : k \in DOMAIN portfolio.trades_closed}

NoCall ==
    [op |-> "init", before |-> NewPortfolio(ApiCapital), symbol |-> "", direction |-> "",
     price |-> None, size |-> None, trade_id |-> 0, time |-> NoTime,
     prices |-> << >>, ret |-> 0, value |-> None, raised |-> "",
     self |-> NoTrade, exited |-> FALSE]

\* No engine run is in progress.
NoRun == [data |-> << >>, cash_per_trade |-> None, stop_loss |-> None, take_profit |-> None]
NoStrategy == [instrument |-> "", short_window |-> 0, long_window |-> 0]
EngineIdle ==
    /\ strategy = NoStrategy
    /\ run_args = NoRun
    /\ signals = << >>
    /\ equity_history = << >>
    /\ equity_curve = << >>
    /\ i = 0
    /\ pc = "idle"
    /\ bar_price = None
    /\ has_long = FALSE
    /\ has_short = FALSE
    /\ bar_open = << >>
    /\ variant = "api"
    /\ pos = NewPositionsPortfolio(Zero)
    /\ bar_signal = ""
    /\ results = NoResults
    /\ raised = ""
    /\ stdout = << >>

Init ==
    /\ portfolio = NewPortfolio(ApiCapital)
    /\ uuid = 0
    /\ call = NoCall
    /\ ncalls = 0
    /\ cash_log = <<ApiCapital>>
    /\ EngineIdle
    /\ the_trade = NoTrade
    /\ metrics = NoMetrics

CallOpenTrade(a) ==
    LET r == OpenTrade(portfolio, uuid + 1, a.symbol, a.direction, a.entry_price,
                       a.size, a.stops[1], a.stops[2], ncalls + 1)
    IN  /\ ncalls < MaxCalls
        /\ portfolio' = r.pf
        /\ uuid' = IF r.ret = 0 THEN uuid ELSE uuid + 1
        /\ call' = [NoCall EXCEPT !.op = "open_trade", !.before = portfolio,
                        !.symbol = a.symbol, !.direction = a.direction,
                        !.price = a.entry_price, !.size = a.size,
                        !.time = ncalls + 1, !.ret = r.ret]
        /\ ncalls' = ncalls + 1
        /\ cash_log' = Append(cash_log, portfolio'.cash)
        /\ UNCHANGED <<engineVars, posVars, outVars>>

CallUpdateMarket(symbol, price, time) ==
    /\ ncalls < MaxCalls
    /\ portfolio' = UpdateMarket(portfolio, symbol, price, time)
    /\ call' = [NoCall EXCEPT !.op = "update_market", !.before = portfolio,
                    !.symbol = symbol, !.price = price, !.time = time]
    /\ ncalls' = ncalls + 1
    /\ cash_log' = Append(cash_log, portfolio'.cash)
    /\ UNCHANGED <<engineVars, posVars, outVars>>
    /\ UNCHANGED uuid

CallCloseTrade(trade_id, price, time) ==
    LET r == CloseTrade(portfolio, trade_id, price, time)
    IN  /\ ncalls < MaxCalls
        /\ portfolio' = r.pf
        /\ call' = [NoCall EXCEPT !.op = "close_trade", !.before = portfolio,
                        !.trade_id = trade_id, !.price = price, !.time = time,
                        !.raised = r.raised]
        /\ ncalls' = ncalls + 1
        /\ cash_log' = Append(cash_log, portfolio'.cash)
        /\ UNCHANGED <<engineVars, posVars, outVars>>
        /\ UNCHANGED uuid

CallSettleTrade(trade) ==
    LET r == SettleTrade(portfolio, trade)
    IN  /\ ncalls < MaxCalls
        /\ portfolio' = r.pf
        /\ call' = [NoCall EXCEPT !.op = "_settle_trade", !.before = portfolio,
                        !.trade_id = trade.trade_id, !.raised = r.raised]
        /\ ncalls' = ncalls + 1
        /\ cash_log' = Append(cash_log, portfolio'.cash)
        /\ UNCHANGED <<engineVars, posVars, outVars>>
        /\ UNCHANGED uuid

\* Trade.close called on a Trade object directly; the object is shared with
\* the portfolio's collections.
CallTradeClose(trade, price, time) ==
    LET r == Close(trade, price, time)
    IN  /\ ncalls < MaxCalls
        /\ portfolio' = [portfolio EXCEPT
                !.trades_open = Mutate(portfolio.trades_open, r.trade),
                !.trades_closed = Mutate(portfolio.trades_closed, r.trade)]
        /\ call' = [NoCall EXCEPT !.op = "Trade.close", !.before = portfolio,
                        !.trade_id = trade.trade_id, !.price = price, !.time = time,
                        !.raised = r.raised]
        /\ ncalls' = ncalls + 1
        /\ cash_log' = Append(cash_log, portfolio'.cash)
        /\ UNCHANGED <<engineVars, posVars, outVars>>
        /\ UNCHANGED uuid

CallEquity(current_prices) ==
    LET r == Equity(portfolio, current_prices)
    IN  /\ ncalls < MaxCalls
        /\ call' = [NoCall EXCEPT !.op = "equity", !.before = portfolio,
                        !.prices = current_prices, !.value = r.value,
                        !.raised = r.raised]
        /\ ncalls' = ncalls + 1
        /\ cash_log' = Append(cash_log, portfolio.cash)
        /\ UNCHANGED <<engineVars, posVars, outVars>>
        /\ UNCHANGED <<portfolio, uuid>>

Next ==
    \/ \E a \in OpenArgs : CallOpenTrade(a)
    \/ \E symbol \in Symbols, price \in MarketPrices, time \in Times :
          CallUpdateMarket(symbol, price, time)
    \/ \E trade_id \in 1..(uuid + 1), price \in ClosePrices, time \in Times :
          CallCloseTrade(trade_id, price, time)
    \/ \E trade \in HeldTrades : CallSettleTrade(trade)
    \/ \E trade \in HeldTrades, price \in ClosePrices, time \in Times :
          CallTradeClose(trade, price, time)
    \/ \E current_prices \in PriceMaps : CallEquity(current_prices)

Spec == Init /\ [][Next]_vars

(***************************************************************************)
(* SpecTrade: a client holding one ledger Trade object and calling its     *)
(* methods (check_exit, close, unrealized_pnl) in any order                *)
(***************************************************************************)
MaxTradeCalls == 2
TradeLevels == {None, R(1), R(2), R(3)}
TradeSizes == {R(1), R(3)}
TradePrices == {R(1), R(2), Frac(5, 2), R(3)}
TradeEntry == R(2)

InitTrade ==
    /\ \E d \in Directions, sz \in TradeSizes, sl \in TradeLevels, tp \in TradeLevels :
          the_trade = Trade(1, "SPY", d, TradeEntry, sz, sl, tp, 1)
    /\ portfolio = NewPortfolio(Zero)
    /\ uuid = 1
    /\ call = NoCall
    /\ ncalls = 0
    /\ cash_log = << >>
    /\ EngineIdle
    /\ metrics = NoMetrics

\* trade.check_exit(price, time)
TradeCheckExit(price) ==
    LET r == CheckExit(the_trade, price, ncalls + 2)
    IN  /\ ncalls < MaxTradeCalls
        /\ the_trade' = r.trade
        /\ call' = [NoCall EXCEPT !.op = "check_exit", !.self = the_trade, !.price = price,
                        !.time = ncalls + 2, !.exited = r.closed]
        /\ ncalls' = ncalls + 1
        /\ UNCHANGED <<portfolio, uuid, cash_log, engineVars, posVars, stdout, metrics>>

\* trade.close(price, time)
TradeClose(price) ==
    LET r == Close(the_trade, price, ncalls + 2)
    IN  /\ ncalls < MaxTradeCalls
        /\ the_trade' = r.trade
        /\ call' = [NoCall EXCEPT !.op = "close", !.self = the_trade, !.price = price,
                        !.time = ncalls + 2, !.raised = r.raised]
        /\ ncalls' = ncalls + 1
        /\ UNCHANGED <<portfolio, uuid, cash_log, engineVars, posVars, stdout, metrics>>

\* trade.unrealized_pnl(price)
TradeUnrealizedPnl(price) ==
    LET r == UnrealizedPnl(the_trade, price)
    IN  /\ ncalls < MaxTradeCalls
        /\ call' = [NoCall EXCEPT !.op = "unrealized_pnl", !.self = the_trade,
                        !.price = price, !.value = r.value, !.raised = r.raised]
        /\ ncalls' = ncalls + 1
        /\ UNCHANGED <<portfolio, uuid, cash_log, engineVars, posVars, outVars>>

NextTrade ==
    \/ \E price \in TradePrices : TradeCheckExit(price)
    \/ \E price \in TradePrices : TradeClose(price)
    \/ \E price \in TradePrices : TradeUnrealizedPnl(price)

SpecTrade == InitTrade /\ [][NextTrade]_vars

(***************************************************************************)
(* SpecEngine: one BacktestEngine.run of the ledger variant, statement by  *)
(* statement.  The timestamp of bar k is k.                                *)
(***************************************************************************)
MaxBars == 4

BarPrices == {R(24), R(25), R(26), R(28)}
EngineCapitals == {R(1000), R(30)}
CashPerTrade == R(50)
StopLossPcts == {None, Frac(1, 50)}
TakeProfitPcts == {None, Frac(1, 25)}
Windows == {<<1, 2>>, <<2, 3>>, <<1, 3>>}
Instrument == "SPY"
PositionsCapitals == {R(100000), R(3000)}

RECURSIVE SeriesOfLen(_)
SeriesOfLen(n) ==
    IF n = 0 THEN {<< >>}
    ELSE {Append(d, p) : d \in SeriesOfLen(n - 1), p \in BarPrices}
Series == UNION {SeriesOfLen(n) : n \in 0..MaxBars}

\* BacktestEngine(strategy, initial_capital), and the arguments of run.
InitEngine ==
    /\ variant \in {"ledger", "positions"}
    /\ \E capital \in EngineCapitals :
          portfolio = IF variant = "ledger" THEN NewPortfolio(capital) ELSE NewPortfolio(Zero)
    /\ \E capital \in PositionsCapitals :
          pos = IF variant = "positions" THEN NewPositionsPortfolio(capital)
                ELSE NewPositionsPortfolio(Zero)
    /\ bar_signal = ""
    /\ results = NoResults
    /\ raised = ""
    /\ the_trade = NoTrade
    /\ stdout = << >>
    /\ metrics = NoMetrics
    /\ uuid = 0
    /\ call = NoCall
    /\ ncalls = 0
    /\ cash_log = << >>
    /\ \E w \in Windows :
          strategy = [instrument |-> Instrument, short_window |-> w[1], long_window |-> w[2]]
    /\ \E data \in Series, sl \in StopLossPcts, tp \in TakeProfitPcts :
          run_args = IF variant = "ledger"
                     THEN [data |-> data, cash_per_trade |-> CashPerTrade,
                           stop_loss |-> sl, take_profit |-> tp]
                     ELSE [data |-> data, cash_per_trade |-> None,
                           stop_loss |-> None, take_profit |-> None]
    /\ signals = << >>
    /\ equity_history = << >>
    /\ equity_curve = << >>
    /\ i = 0
    /\ pc = IF variant = "ledger" THEN "start" ELSE "p_start"
    /\ bar_price = None
    /\ has_long = FALSE
    /\ has_short = FALSE
    /\ bar_open = << >>

\* signals = self.strategy.generate_signals(data); equity_history = []
EngineStart ==
    /\ pc = "start"
    /\ signals' = GenerateSignals(run_args.data, strategy.short_window, strategy.long_window)
    /\ equity_history' = << >>
    /\ i' = 1
    /\ pc' = IF Len(run_args.data) = 0 THEN "finish" ELSE "sweep"
    /\ UNCHANGED <<outVars, posVars, ledgerVars, strategy, run_args, equity_curve, bar_price, has_long,
                   has_short, bar_open>>

\* price = float(data.loc[timestamp, "close"]); portfolio.update_market(...)
EngineSweep ==
    /\ pc = "sweep"
    /\ bar_price' = run_args.data[i]
    /\ bar_open' = portfolio.trades_open
    /\ portfolio' = UpdateMarket(portfolio, strategy.instrument, run_args.data[i], i)
    /\ call' = [NoCall EXCEPT !.op = "update_market", !.before = portfolio,
                    !.symbol = strategy.instrument, !.price = run_args.data[i],
                    !.time = i]
    /\ pc' = "directions"
    /\ UNCHANGED <<outVars, posVars, uuid, ncalls, cash_log, strategy, run_args, signals, equity_history,
                   equity_curve, i, has_long, has_short>>

\* directions, has_long, has_short
EngineDirections ==
    /\ pc = "directions"
    /\ has_long' = ("long" \in HeldDirections(portfolio, strategy.instrument))
    /\ has_short' = ("short" \in HeldDirections(portfolio, strategy.instrument))
    /\ pc' = "signal"
    /\ UNCHANGED <<outVars, posVars, ledgerVars, strategy, run_args, signals, equity_history,
                   equity_curve, i, bar_price, bar_open>>

\* if signal == 1: ... elif signal == -1: ...
EngineSignal ==
    LET r == ApplySignal(portfolio, uuid + 1, signals[i], strategy.instrument, bar_price, i,
                         run_args, has_long, has_short)
    IN  /\ pc = "signal"
        /\ portfolio' = r.pf
        /\ uuid' = IF r.ret = 0 THEN uuid ELSE uuid + 1
        /\ call' = IF r.called
                   THEN [NoCall EXCEPT !.op = "open_trade", !.before = r.before,
                            !.symbol = strategy.instrument, !.price = bar_price,
                            !.time = i, !.ret = r.ret]
                   ELSE [NoCall EXCEPT !.op = "none", !.before = r.before]
        /\ pc' = "record"
        /\ UNCHANGED <<outVars, posVars, ncalls, cash_log, strategy, run_args, signals, equity_history,
                       equity_curve, i, bar_price, has_long, has_short, bar_open>>

\* equity_history.append(self.portfolio.equity({instrument: price})), and the
\* for loop moves to the next bar or ends.
EngineRecord ==
    LET current_prices == [x \in {strategy.instrument} |-> bar_price]
    IN  /\ pc = "record"
        /\ equity_history' = Append(equity_history, Equity(portfolio, current_prices).value)
        /\ i' = i + 1
        /\ pc' = IF i = Len(signals) THEN "finish" ELSE "sweep"
        /\ UNCHANGED <<outVars, posVars, ledgerVars, strategy, run_args, signals, equity_curve, bar_price,
                       has_long, has_short, bar_open>>

\* self.equity_curve = pd.Series(equity_history, index=signals.index)
EngineFinish ==
    /\ pc = "finish"
    /\ equity_curve' = [k \in DOMAIN signals |->
                            [timestamp |-> k, equity |-> equity_history[k]]]
    /\ pc' = "done"
    /\ UNCHANGED <<outVars, posVars, ledgerVars, strategy, run_args, signals, equity_history, i, bar_price,
                   has_long, has_short, bar_open>>

(***************************************************************************)
(* BacktestEngine.run_backtest of the positions variant                    *)
(* (src/backtest_engine.py), one action per statement of the loop body     *)
(***************************************************************************)
\* {asset: current_price}
PricesAt(asset, px) == [a \in {asset} |-> px]

\* if all_data.empty: return; otherwise enter the loop at the first bar
PositionsStart ==
    /\ pc = "p_start"
    /\ i' = 1
    /\ pc' = IF Len(run_args.data) = 0 THEN "done" ELSE "p_signal"
    /\ stdout' = IF Len(run_args.data) = 0
                 THEN Append(stdout, NoDataNotice)
                 ELSE stdout
    /\ UNCHANGED <<the_trade, metrics, posVars, ledgerVars, strategy, run_args, signals, equity_history,
                   equity_curve, bar_price, has_long, has_short, bar_open>>

\* current_data = all_data.iloc[:i + 1]; signal = generate_signals(current_data)
PositionsGenerate ==
    /\ pc = "p_signal"
    /\ bar_price' = run_args.data[i]
    /\ bar_signal' = PositionsSignal(SubSeq(run_args.data, 1, i),
                                     strategy.short_window, strategy.long_window)
    /\ pc' = "p_check"
    /\ UNCHANGED <<outVars, variant, pos, results, raised, ledgerVars, strategy, run_args, signals,
                   equity_history, equity_curve, i, has_long, has_short, bar_open>>

\* self.portfolio.check_TP_SL(current_prices, current_timestamp)
PositionsCheck ==
    /\ pc = "p_check"
    /\ pos' = CheckTPSL(pos, PricesAt(strategy.instrument, bar_price), i)
    /\ pc' = "p_handle"
    /\ UNCHANGED <<outVars, variant, bar_signal, results, raised, ledgerVars, strategy, run_args,
                   signals, equity_history, equity_curve, i, bar_price, has_long, has_short,
                   bar_open>>

\* handle_signal(...) if signal != 'HOLD' else calculate_equity(...); an
\* exception of handle_signal propagates out of run_backtest.
PositionsHandle ==
    /\ pc = "p_handle"
    /\ LET current_prices == PricesAt(strategy.instrument, bar_price)
           r == IF bar_signal # "HOLD"
                THEN HandleSignal(pos, bar_signal, i, strategy.instrument, bar_price,
                                  current_prices)
                ELSE [pf |-> CalculateEquity(pos, current_prices, i), raised |-> ""]
       IN  /\ pos' = r.pf
           /\ raised' = r.raised
           /\ pc' = IF r.raised # "" THEN "raised"
                    ELSE IF i = Len(run_args.data) THEN "p_results" ELSE "p_signal"
           /\ i' = IF r.raised # "" THEN i ELSE i + 1
    /\ UNCHANGED <<outVars, variant, bar_signal, results, ledgerVars, strategy, run_args, signals,
                   equity_history, equity_curve, bar_price, has_long, has_short, bar_open>>

\* self.transactions, self.equity_curve = self.portfolio.get_results()
PositionsResults ==
    /\ pc = "p_results"
    /\ results' = [set |-> TRUE, transactions |-> pos.transactions,
                   equity_curve |-> pos.equity_curve]
    /\ pc' = "done"
    /\ UNCHANGED <<outVars, variant, pos, bar_signal, raised, ledgerVars, strategy, run_args, signals,
                   equity_history, equity_curve, i, bar_price, has_long, has_short, bar_open>>

NextEngine ==
    \/ EngineStart
    \/ EngineSweep
    \/ EngineDirections
    \/ EngineSignal
    \/ EngineRecord
    \/ EngineFinish
    \/ PositionsStart
    \/ PositionsGenerate
    \/ PositionsCheck
    \/ PositionsHandle
    \/ PositionsResults

SpecEngine == InitEngine /\ [][NextEngine]_vars

(***************************************************************************)
(* SpecPipeline: the data is loaded first (DataLoader of the ledger        *)
(* variant, Datahandler of the positions variant), then the engine runs    *)
(***************************************************************************)
\* A mutant of the download that hands on whatever it received.
DownloadFromYfUnchecked(df) == [df |-> df, raised |-> ""]

\* DataLoader._download_from_yf: df is what yf.download returned.
DownloadFromYf(df) ==
    IF Len(df) = 0 THEN [df |-> df, raised |-> "ValueError"]
    ELSE [df |-> df, raised |-> ""]

\* print("No data found for the specified asset or data range")
NoDataFound == "No data found for the specified asset or data range"

\* Before the load: the engine and its portfolio are built, the data frame
\* is the empty one of Datahandler.__init__.
InitPipeline ==
    /\ variant \in {"ledger", "positions"}
    /\ \E capital \in EngineCapitals :
          portfolio = IF variant = "ledger" THEN NewPortfolio(capital) ELSE NewPortfolio(Zero)
    /\ \E capital \in PositionsCapitals :
          pos = IF variant = "positions" THEN NewPositionsPortfolio(capital)
                ELSE NewPositionsPortfolio(Zero)
    /\ bar_signal = ""
    /\ results = NoResults
    /\ raised = ""
    /\ the_trade = NoTrade
    /\ stdout = << >>
    /\ metrics = NoMetrics
    /\ uuid = 0
    /\ call = NoCall
    /\ ncalls = 0
    /\ cash_log = << >>
    /\ \E w \in Windows :
          strategy = [instrument |-> Instrument, short_window |-> w[1], long_window |-> w[2]]
    /\ \E sl \in StopLossPcts, tp \in TakeProfitPcts :
          run_args = IF variant = "ledger"
                     THEN [data |-> << >>, cash_per_trade |-> CashPerTrade,
                           stop_loss |-> sl, take_profit |-> tp]
                     ELSE [data |-> << >>, cash_per_trade |-> None,
                           stop_loss |-> None, take_profit |-> None]
    /\ signals = << >>
    /\ equity_history = << >>
    /\ equity_curve = << >>
    /\ i = 0
    /\ pc = IF variant = "ledger" THEN "load" ELSE "p_load"
    /\ bar_price = None
    /\ has_long = FALSE
    /\ has_short = FALSE
    /\ bar_open = << >>

\* data = loader.get(INSTRUMENT, ..., use_cache=False); a ValueError of the
\* download propagates to the caller, who never reaches engine.run.
LoaderGet ==
    /\ pc = "load"
    /\ \E df \in Series :
          LET r == DownloadFromYf(df)
          IN  /\ raised' = r.raised
              /\ run_args' = IF r.raised = "" THEN [run_args EXCEPT !.data = r.df]
                             ELSE run_args
              /\ pc' = IF r.raised = "" THEN "start" ELSE "raised"
    /\ UNCHANGED <<outVars, variant, pos, bar_signal, results, ledgerVars, strategy, signals,
                   equity_history, equity_curve, i, bar_price, has_long, has_short, bar_open>>

\* Datahandler.load_data(source='yahoo'): self.data is whatever yf.download
\* returned; an empty frame is announced and kept.
DatahandlerLoad ==
    /\ pc = "p_load"
    /\ \E df \in Series :
          /\ run_args' = [run_args EXCEPT !.data = df]
          /\ stdout' = IF Len(df) = 0 THEN Append(stdout, NoDataFound) ELSE stdout
    /\ pc' = "p_start"
    /\ UNCHANGED <<the_trade, metrics, posVars, ledgerVars, strategy, signals, equity_history,
                   equity_curve, i, bar_price, has_long, has_short, bar_open>>

NextPipeline ==
    \/ LoaderGet
    \/ DatahandlerLoad
    \/ NextEngine

SpecPipeline == InitPipeline /\ [][NextPipeline]_vars

(***************************************************************************)
(* SpecMetrics: the performance metrics called on an equity curve          *)
(***************************************************************************)
MaxPoints == 3
CurveStarts == {R(1), R(2), R(4)}
CurveValues == {R(-1), R(0), R(1), R(2), R(4)}
RiskFreeRates == {Zero, Frac(1, 50)}
PeriodsPerYear == {1, 252}
CagrPeriods == {-252, 1, 252}

\* The equity curves of a run: none for a run without bars, else a curve
\* that starts at the (positive) capital; later points may fall to zero or
\* below.
RECURSIVE CurvesOfLen(_)
CurvesOfLen(n) ==
    IF n = 0 THEN {<< >>}
    ELSE IF n = 1 THEN {<<c>> : c \in CurveStarts}
    ELSE {Append(e, v) : e \in CurvesOfLen(n - 1), v \in CurveValues}
Curves == UNION {CurvesOfLen(n) : n \in 0..MaxPoints}

InitMetrics ==
    /\ \E e \in Curves : metrics = [NoMetrics EXCEPT !.equity_curve = e]
    /\ the_trade = NoTrade
    /\ portfolio = NewPortfolio(Zero)
    /\ uuid = 0
    /\ call = NoCall
    /\ ncalls = 0
    /\ cash_log = << >>
    /\ EngineIdle

\* returns = compute_returns(equity_curve)
MetricsComputeReturns ==
    /\ metrics' = [metrics EXCEPT !.op = "compute_returns",
                                  !.returns = ComputeReturns(metrics.equity_curve),
                                  !.value = NoValue, !.summary = NoSummary, !.raised = ""]
    /\ UNCHANGED <<the_trade, stdout, ledgerVars, engineVars, posVars>>

\* sharpe_ratio(returns, risk_free_rate, periods_per_year)
MetricsSharpeRatio ==
    /\ \E rf \in RiskFreeRates, ppy \in PeriodsPerYear :
          metrics' = [metrics EXCEPT !.op = "sharpe_ratio",
                                     !.risk_free_rate = rf, !.periods_per_year = ppy,
                                     !.value = SharpeRatio(metrics.returns, rf, ppy),
                                     !.summary = NoSummary, !.raised = ""]
    /\ UNCHANGED <<the_trade, stdout, ledgerVars, engineVars, posVars>>

\* max_drawdown(equity_curve)
MetricsMaxDrawdown ==
    /\ metrics' = [metrics EXCEPT !.op = "max_drawdown",
                                  !.value = MaxDrawdown(metrics.equity_curve),
                                  !.summary = NoSummary, !.raised = ""]
    /\ UNCHANGED <<the_trade, stdout, ledgerVars, engineVars, posVars>>

\* cagr(equity_curve, periods_per_year)
MetricsCagr ==
    /\ \E ppy \in CagrPeriods :
          LET r == Cagr(metrics.equity_curve, ppy)
          IN  metrics' = [metrics EXCEPT !.op = "cagr", !.periods_per_year = ppy,
                                         !.value = r.value, !.summary = NoSummary,
                                         !.raised = r.raised]
    /\ UNCHANGED <<the_trade, stdout, ledgerVars, engineVars, posVars>>

\* engine.get_performance(): summarize_performance(self.equity_curve, ...)
MetricsSummarize ==
    /\ \E rf \in RiskFreeRates, ppy \in PeriodsPerYear :
          LET r == SummarizePerformance(metrics.equity_curve, rf, ppy)
          IN  metrics' = [metrics EXCEPT !.op = "summarize_performance",
                                         !.risk_free_rate = rf, !.periods_per_year = ppy,
                                         !.value = NoValue, !.summary = r.summary,
                                         !.raised = r.raised]
    /\ UNCHANGED <<the_trade, stdout, ledgerVars, engineVars, posVars>>

\* PerformanceAnalyzer(portfolio, data).calculate_metrics()
MetricsCalculate ==
    /\ metrics' = [metrics EXCEPT !.op = "calculate_metrics",
                                  !.value = NoValue,
                                  !.summary = CalculateMetrics(metrics.equity_curve),
                                  !.raised = ""]
    /\ UNCHANGED <<the_trade, stdout, ledgerVars, engineVars, posVars>>

NextMetrics ==
    \/ MetricsComputeReturns
    \/ MetricsSharpeRatio
    \/ MetricsMaxDrawdown
    \/ MetricsCagr
    \/ MetricsSummarize
    \/ MetricsCalculate

SpecMetrics == InitMetrics /\ [][NextMetrics]_vars

(***************************************************************************)
(* SpecPositions: a client calling the positions Portfolio                 *)
(* (src/portfolio.py) directly                                             *)
(***************************************************************************)
MaxPositionCalls == 3
PositionSignals == {"LONG", "SHORT", "HOLD"}

InitPositions ==
    /\ \E capital \in PositionsCapitals : pos = NewPositionsPortfolio(capital)
    /\ variant = "positions"
    /\ bar_signal = ""
    /\ results = NoResults
    /\ raised = ""
    /\ the_trade = NoTrade
    /\ stdout = << >>
    /\ metrics = NoMetrics
    /\ portfolio = NewPortfolio(Zero)
    /\ uuid = 0
    /\ call = NoCall
    /\ ncalls = 0
    /\ cash_log = << >>
    /\ strategy = NoStrategy
    /\ run_args = NoRun
    /\ signals = << >>
    /\ equity_history = << >>
    /\ equity_curve = << >>
    /\ i = 0
    /\ pc = "idle"
    /\ bar_price = None
    /\ has_long = FALSE
    /\ has_short = FALSE
    /\ bar_open = << >>

\* portfolio.handle_signal(signal, timestamp, asset_symbol, price, all_prices)
PositionsHandleSignal(sig, px) ==
    LET r == HandleSignal(pos, sig, ncalls + 1, Instrument, px, PricesAt(Instrument, px))
    IN  /\ ncalls < MaxPositionCalls
        /\ pos' = r.pf
        /\ call' = [NoCall EXCEPT !.op = "handle_signal", !.before = pos,
                        !.symbol = Instrument, !.direction = sig, !.price = px,
                        !.time = ncalls + 1, !.prices = PricesAt(Instrument, px),
                        !.raised = r.raised]
        /\ ncalls' = ncalls + 1
        /\ UNCHANGED <<portfolio, uuid, cash_log, engineVars, variant, bar_signal, results,
                       raised, outVars>>

\* portfolio.check_TP_SL(current_prices, timestamp)
PositionsCheckTPSL(px) ==
    /\ ncalls < MaxPositionCalls
    /\ pos' = CheckTPSL(pos, PricesAt(Instrument, px), ncalls + 1)
    /\ call' = [NoCall EXCEPT !.op = "check_TP_SL", !.before = pos,
                    !.symbol = Instrument, !.price = px, !.time = ncalls + 1,
                    !.prices = PricesAt(Instrument, px)]
    /\ ncalls' = ncalls + 1
    /\ UNCHANGED <<portfolio, uuid, cash_log, engineVars, variant, bar_signal, results,
                   raised, outVars>>

NextPositions ==
    \/ \E sig \in PositionSignals, px \in BarPrices : PositionsHandleSignal(sig, px)
    \/ \E px \in BarPrices : PositionsCheckTPSL(px)

SpecPositions == InitPositions /\ [][NextPositions]_vars

(***************************************************************************)
(* Claims about the ledger Portfolio / Trade API (checked under Spec)      *)
(***************************************************************************)
\* The Trade object with the given id, wherever the portfolio keeps it.
TradeIn(pf, trade_id) ==
    IF HasKey(pf.trades_open, trade_id) THEN Lookup(pf.trades_open, trade_id)
    ELSE Lookup(pf.trades_closed, trade_id)
Holds(pf, trade_id) == HasKey(pf.trades_open, trade_id) \/ HasKey(pf.trades_closed, trade_id)

\* C1: every open_trade call that returns a trade creates it with size > 0 and
\* entry_price * size <= cash before the call; when the requested cost exceeds
\* the cash, the cost equals the cash exactly; cash afterwards is cash before
\* minus the cost.
C1_OpenTradeSizedToCash ==
    (call.op = "open_trade" /\ call.ret # 0) =>
        LET t    == Lookup(portfolio.trades_open, call.ret)
            cost == RMul(t.entry_price, t.size)
        IN  /\ RLt(Zero, t.size)
            /\ RLe(cost, call.before.cash)
            /\ RLt(call.before.cash, RMul(call.price, call.size)) => cost = call.before.cash
            /\ portfolio.cash = RSub(call.before.cash, cost)

\* The part of C1 the code keeps: the same statement for calls with a
\* positive entry_price.
C1_PositivePriceSizedToCash ==
    (call.op = "open_trade" /\ call.ret # 0 /\ RLt(Zero, call.price)) =>
        LET t    == Lookup(portfolio.trades_open, call.ret)
            cost == RMul(t.entry_price, t.size)
        IN  /\ RLt(Zero, t.size)
            /\ RLe(cost, call.before.cash)
            /\ RLt(call.before.cash, RMul(call.price, call.size)) => cost = call.before.cash
            /\ portfolio.cash = RSub(call.before.cash, cost)

\* A long opened by the previous call and closed by this close_trade call at
\* its entry price.
RoundTripCase ==
    /\ call.op = "close_trade"
    /\ HasKey(call.before.trades_open, call.trade_id)
    /\ LET tb == Lookup(call.before.trades_open, call.trade_id)
       IN  /\ tb.status = "open"
           /\ tb.direction = "long"
           /\ tb.entry_time = ncalls - 1
           /\ call.price = tb.entry_price

\* C2: open_trade of a long at p immediately followed by close_trade of that
\* trade at p gives the trade pnl = 0 and leaves cash as it was before the open.
C2_RoundTrip ==
    RoundTripCase =>
        /\ call.raised = ""
        /\ HasKey(portfolio.trades_closed, call.trade_id)
        /\ Lookup(portfolio.trades_closed, call.trade_id).pnl = Zero
        /\ portfolio.cash = cash_log[ncalls - 1]

\* C2 witness: the round trip of a long whose size was clamped to all the cash.
C2_Witness ==
    /\ RoundTripCase
    /\ LET tb == Lookup(call.before.trades_open, call.trade_id)
       IN  /\ RMul(tb.entry_price, tb.size) = cash_log[ncalls - 1]
           /\ tb.size \notin {R(1), R(3)}
    /\ portfolio.cash = ApiCapital

\* Trade.close called on a trade that was already closed.
CloseAgainCase ==
    /\ call.op = "Trade.close"
    /\ TradeIn(call.before, call.trade_id).status = "closed"

\* C3: Trade.close on a closed trade leaves status, exit_price, exit_time and
\* pnl as the first close set them.
C3_CloseIdempotent ==
    CloseAgainCase =>
        LET tb == TradeIn(call.before, call.trade_id)
            ta == TradeIn(portfolio, call.trade_id)
        IN  /\ ta.status = tb.status
            /\ ta.exit_price = tb.exit_price
            /\ ta.exit_time = tb.exit_time
            /\ ta.pnl = tb.pnl
            /\ call.raised = ""

\* C3 witness: a second close at another price and another time.
C3_Witness ==
    /\ CloseAgainCase
    /\ LET tb == TradeIn(call.before, call.trade_id)
       IN  /\ call.price # tb.exit_price
           /\ call.time # tb.exit_time
           /\ ~IsNone(tb.pnl)

\* The sum of unrealized_pnl over the trades of a set, each at the price
\* current_prices gives its instrument.
RECURSIVE SumUnrealized(_, _)
SumUnrealized(S, current_prices) ==
    IF S = {} THEN Zero
    ELSE LET t == CHOOSE x \in S : TRUE
         IN  RAdd(UnrealizedPnl(t, current_prices[t.ticker]).value,
                  SumUnrealized(S \ {t}, current_prices))

PricedOpenTrades(pf, current_prices) ==
    {pf.trades_open[k] : k \in {j \in DOMAIN pf.trades_open :
                                    pf.trades_open[j].ticker \in DOMAIN current_prices}}

\* C10: equity(current_prices) returns cash plus the sum of unrealized_pnl over
\* exactly the open trades whose instrument is a key of current_prices.
C10_EquityIsCashPlusUnrealized ==
    (call.op = "equity" /\ call.raised = "") =>
        call.value = RAdd(portfolio.cash,
                          SumUnrealized(PricedOpenTrades(portfolio, call.prices), call.prices))

\* C10 witness: an open trade with unrealized profit or loss is counted while
\* another open trade, whose instrument has no price, is left out.
C10_Witness ==
    /\ call.op = "equity"
    /\ call.raised = ""
    /\ call.value # portfolio.cash
    /\ \E k \in DOMAIN portfolio.trades_open :
          /\ portfolio.trades_open[k].ticker \notin DOMAIN call.prices
          /\ portfolio.trades_open[k].status = "open"
          /\ portfolio.trades_open[k].entry_price \notin {R(1), R(3)}


\* C12: whenever the portfolio holds no open trade (trades_open is empty, or
\* holds only trades already marked closed), equity(prices) returns the cash
\* exactly, for every prices map.
C12_EquityOfFlatPortfolioIsCash ==
    (call.op = "equity"
        /\ \A k \in DOMAIN call.before.trades_open :
              call.before.trades_open[k].status = "closed") =>
        /\ call.raised = ""
        /\ call.value = call.before.cash

\* C12 witness: equity is asked, with a price for the instrument traded, of a
\* portfolio whose only trade has been closed with a gain or a loss.
C12_Witness ==
    /\ call.op = "equity"
    /\ portfolio.trades_open = << >>
    /\ portfolio.trades_closed # << >>
    /\ portfolio.cash # portfolio.initial_capital
    /\ \E k \in DOMAIN portfolio.trades_closed :
          portfolio.trades_closed[k].ticker \in DOMAIN call.prices
    /\ call.value = portfolio.cash

\* The cost of an open_trade request once it is clamped to the cash.
ClampedCost(cash, entry_price, size) ==
    IF RLt(cash, RMul(entry_price, size)) /\ RLt(Zero, entry_price)
    THEN RMul(entry_price, RDiv(cash, entry_price))
    ELSE RMul(entry_price, size)

\* C16: open_trade whose cost after clamping is <= 0 (no cash, or a zero size
\* or price) returns None without raising and creates no trade: cash, the
\* open mapping and the closed list are unchanged.
C16_NoCostNoTrade ==
    (call.op = "open_trade"
        /\ RLe(ClampedCost(call.before.cash, call.price, call.size), Zero)) =>
        /\ call.ret = 0
        /\ call.raised = ""
        /\ portfolio = call.before

\* C16 witness: a request of positive price and size met a portfolio without
\* cash and was turned down.
C16_Witness ==
    /\ call.op = "open_trade"
    /\ call.before.cash = Zero
    /\ RLt(Zero, call.price) /\ RLt(Zero, call.size)
    /\ call.ret = 0
    /\ portfolio = call.before

\* C19: open_trade with a direction outside {long, short} fails for that
\* operation: no trade is created and cash is not debited.
C19_InvalidDirectionRejected ==
    (call.op = "open_trade" /\ call.direction \notin {"long", "short"}) =>
        /\ call.raised # ""
        /\ call.ret = 0
        /\ portfolio = call.before

\* What the code does instead: the direction is never examined, so a request
\* of positive cost opens the trade and debits the cash.
C19_InvalidDirectionAccepted ==
    (call.op = "open_trade" /\ call.direction \notin {"long", "short"}
        /\ RLt(Zero, ClampedCost(call.before.cash, call.price, call.size))) =>
        /\ call.ret # 0
        /\ Lookup(portfolio.trades_open, call.ret).direction = call.direction
        /\ portfolio.cash
              = RSub(call.before.cash, ClampedCost(call.before.cash, call.price, call.size))

(***************************************************************************)
(* Claims about the backtest engines (checked under SpecEngine)            *)
(***************************************************************************)
\* Positions of the open trades of the run's instrument on one side.
OpenOfSide(pf, side) ==
    {k \in DOMAIN pf.trades_open :
        /\ pf.trades_open[k].ticker = strategy.instrument
        /\ pf.trades_open[k].direction = side
        /\ pf.trades_open[k].status = "open"}

\* The last bar of the ledger run whose signal has been applied, 0 if none.
LastApplied ==
    IF variant # "ledger" THEN 0
    ELSE IF pc = "record" THEN i
    ELSE IF pc \in {"sweep", "finish", "done"} THEN i - 1
    ELSE 0

\* C4: after a bar with a LONG signal has been processed no short of the
\* instrument is open and at most one long is; after a bar with a SHORT signal
\* no long is open and at most one short is; and a trade is opened only when
\* none of its side was open.
C4_OneSideAfterSignal ==
    LastApplied >= 1 =>
        LET sig == signals[LastApplied]
        IN  /\ sig = 1 =>
                /\ OpenOfSide(portfolio, "short") = {}
                /\ Cardinality(OpenOfSide(portfolio, "long")) <= 1
            /\ sig = -1 =>
                /\ OpenOfSide(portfolio, "long") = {}
                /\ Cardinality(OpenOfSide(portfolio, "short")) <= 1
            /\ (pc = "record" /\ call.op = "open_trade" /\ call.ret # 0) =>
                OpenOfSide(call.before, Lookup(portfolio.trades_open, call.ret).direction) = {}

\* C4 witness: a LONG bar found a short open, and after it the short is gone
\* and exactly one long is open.
C4_Witness ==
    /\ variant = "ledger" /\ pc = "record" /\ signals[i] = 1
    /\ has_short
    /\ OpenOfSide(portfolio, "short") = {}
    /\ Cardinality(OpenOfSide(portfolio, "long")) = 1

\* What settling the trades of one side at a price credits to cash.
RECURSIVE SettlementOf(_, _, _, _)
SettlementOf(trades, k, side, px) ==
    IF k > Len(trades) THEN Zero
    ELSE LET t == trades[k]
             pnl == IF side = "long" THEN RMul(RSub(px, t.entry_price), t.size)
                    ELSE RMul(RSub(t.entry_price, px), t.size)
             rest == SettlementOf(trades, k + 1, side, px)
         IN  IF t.ticker = strategy.instrument /\ t.direction = side
             THEN RAdd(RAdd(RMul(t.entry_price, t.size), pnl), rest)
             ELSE rest

\* The step that applies the signal of bar i, a SHORT with a long held or a
\* LONG with a short held.
ReversalStep ==
    /\ variant = "ledger" /\ pc = "signal"
    /\ \/ signals[i] = -1 /\ has_long
       \/ signals[i] = 1 /\ has_short

\* C5: when a SHORT signal arrives while a long is open (and symmetrically),
\* the long is force-closed at the bar's price with pnl = (price - entry) *
\* size, and its settlement is in the cash before the new trade is sized: the
\* new trade's notional is min(cash_per_trade, cash after the close), and it
\* is opened exactly when that amount is positive.
C5_CloseSettledBeforeEntry ==
    [][ReversalStep =>
        LET old  == IF signals[i] = -1 THEN "long" ELSE "short"
            new  == IF signals[i] = -1 THEN "short" ELSE "long"
            held == IF signals[i] = -1 THEN has_short ELSE has_long
            cash_after_close ==
                RAdd(portfolio.cash, SettlementOf(portfolio.trades_open, 1, old, bar_price))
            alloc_cash == RMin(run_args.cash_per_trade, cash_after_close)
        IN  /\ \A k \in OpenOfSide(portfolio, old) :
                  LET t == portfolio.trades_open[k]
                  IN  /\ ~HasKey(portfolio'.trades_open, t.trade_id)
                      /\ HasKey(portfolio'.trades_closed, t.trade_id)
                      /\ LET c == Lookup(portfolio'.trades_closed, t.trade_id)
                         IN  /\ c.status = "closed"
                             /\ c.exit_price = bar_price
                             /\ c.exit_time = i
                             /\ c.pnl = IF old = "long"
                                        THEN RMul(RSub(bar_price, t.entry_price), t.size)
                                        ELSE RMul(RSub(t.entry_price, bar_price), t.size)
            /\ IF ~held /\ RLt(Zero, alloc_cash)
               THEN /\ call'.op = "open_trade" /\ call'.ret # 0
                    /\ call'.before.cash = cash_after_close
                    /\ OpenOfSide(call'.before, old) = {}
                    /\ HasKey(portfolio'.trades_open, call'.ret)
                    /\ LET n == Lookup(portfolio'.trades_open, call'.ret)
                       IN  /\ n.direction = new
                           /\ n.entry_price = bar_price
                           /\ RMul(n.entry_price, n.size) = alloc_cash
                    /\ portfolio'.cash = RSub(cash_after_close, alloc_cash)
               ELSE /\ call'.op # "open_trade"
                    /\ portfolio'.cash = cash_after_close
                    /\ Len(portfolio'.trades_open)
                         = Len(portfolio.trades_open) - Cardinality(OpenOfSide(portfolio, old))
    ]_vars

\* C5 witness: a SHORT bar found a long open; the long was closed at this bar
\* with a loss or a gain, and the short that followed was sized from less than
\* cash_per_trade, which the cash reached only through that settlement.
C5_Witness ==
    /\ variant = "ledger" /\ pc = "record" /\ signals[i] = -1 /\ has_long
    /\ call.op = "open_trade" /\ call.ret # 0
    /\ \E k \in DOMAIN portfolio.trades_closed :
          /\ portfolio.trades_closed[k].direction = "long"
          /\ portfolio.trades_closed[k].exit_time = i
          /\ portfolio.trades_closed[k].pnl # Zero
    /\ LET n == Lookup(portfolio.trades_open, call.ret)
       IN  /\ n.direction = "short"
           /\ RLt(RMul(n.entry_price, n.size), run_args.cash_per_trade)

\* The exit condition of an open trade at a price: its stop-loss or its
\* take-profit level is reached.
HitsExit(t, px) ==
    /\ t.status = "open"
    /\ \/ t.direction = "long" /\ ~IsNone(t.stop_loss) /\ RLe(px, t.stop_loss)
       \/ t.direction = "long" /\ ~IsNone(t.take_profit) /\ RLe(t.take_profit, px)
       \/ t.direction = "short" /\ ~IsNone(t.stop_loss) /\ RLe(t.stop_loss, px)
       \/ t.direction = "short" /\ ~IsNone(t.take_profit) /\ RLe(px, t.take_profit)

\* C6: when the signal of a bar is about to be applied, the stop-loss and
\* take-profit sweep of that bar has run (no open trade still meets its exit
\* condition) and has_long / has_short tell what is open after the sweep;
\* hence a long that hits its SL or TP at a bar whose signal is LONG is closed
\* at that bar and a new long is opened at the bar's price in the same bar.
C6_SweepBeforeSignal ==
    /\ (variant = "ledger" /\ pc = "signal") =>
          /\ \A k \in DOMAIN portfolio.trades_open :
                ~HitsExit(portfolio.trades_open[k], bar_price)
          /\ has_long = (OpenOfSide(portfolio, "long") # {})
          /\ has_short = (OpenOfSide(portfolio, "short") # {})
    /\ (variant = "ledger" /\ pc = "record" /\ signals[i] = 1
            /\ RLt(Zero, run_args.cash_per_trade)) =>
          \A k \in DOMAIN bar_open :
              LET t == bar_open[k]
              IN  (t.ticker = strategy.instrument /\ t.direction = "long"
                        /\ HitsExit(t, bar_price)) =>
                      /\ HasKey(portfolio.trades_closed, t.trade_id)
                      /\ Lookup(portfolio.trades_closed, t.trade_id).exit_time = i
                      /\ Lookup(portfolio.trades_closed, t.trade_id).exit_price = bar_price
                      /\ \E j \in OpenOfSide(portfolio, "long") :
                            /\ portfolio.trades_open[j].entry_time = i
                            /\ portfolio.trades_open[j].entry_price = bar_price
                            /\ portfolio.trades_open[j].trade_id # t.trade_id

\* C6 witness: a long that was open when the bar began hit its take-profit at
\* a bar whose signal is LONG; it is closed and another long is open, entered
\* at this bar.
C6_Witness ==
    /\ variant = "ledger" /\ pc = "record" /\ signals[i] = 1
    /\ \E k \in DOMAIN bar_open :
          /\ bar_open[k].direction = "long"
          /\ ~IsNone(bar_open[k].take_profit)
          /\ RLe(bar_open[k].take_profit, bar_price)
          /\ HasKey(portfolio.trades_closed, bar_open[k].trade_id)
    /\ \E j \in OpenOfSide(portfolio, "long") : portfolio.trades_open[j].entry_time = i


\* One pass of the ledger loop body over bar k, as a function of the state
\* the previous bar left (sweep, held directions, signal, equity).
RunBar(st, k, data, sigs, args, instrument) ==
    LET swept == UpdateMarket(st.portfolio, instrument, data[k], k)
        held  == HeldDirections(swept, instrument)
        r     == ApplySignal(swept, st.uuid + 1, sigs[k], instrument, data[k], k, args,
                             "long" \in held, "short" \in held)
    IN  [portfolio      |-> r.pf,
         uuid           |-> IF r.ret = 0 THEN st.uuid ELSE st.uuid + 1,
         equity_history |-> Append(st.equity_history,
                                   Equity(r.pf, [x \in {instrument} |-> data[k]]).value)]

RECURSIVE RunBars(_, _, _, _, _)
RunBars(k, data, sigs, args, capital) ==
    IF k = 0
    THEN [portfolio |-> NewPortfolio(capital), uuid |-> 0, equity_history |-> << >>]
    ELSE RunBar(RunBars(k - 1, data, sigs, args, capital), k, data, sigs, args,
                strategy.instrument)

\* A whole ledger run over a series: what it leaves after the last bar.
RunOn(data) ==
    RunBars(Len(data), data,
            GenerateSignals(data, strategy.short_window, strategy.long_window),
            run_args, portfolio.initial_capital)

\* One pass of the positions loop body over bar k (signal from the bars up to
\* k, sweep, handle_signal or calculate_equity); a raised run stays as it is.
PositionsRunBar(st, k, data) ==
    IF st.raised # "" THEN st
    ELSE LET prices == PricesAt(strategy.instrument, data[k])
             sig    == PositionsSignal(SubSeq(data, 1, k), strategy.short_window,
                                       strategy.long_window)
             swept  == CheckTPSL(st.pos, prices, k)
             r      == IF sig # "HOLD"
                       THEN HandleSignal(swept, sig, k, strategy.instrument, data[k], prices)
                       ELSE [pf |-> CalculateEquity(swept, prices, k), raised |-> ""]
         IN  [pos |-> r.pf, raised |-> r.raised]

RECURSIVE PositionsRunBars(_, _)
PositionsRunBars(k, data) ==
    IF k = 0
    THEN [pos |-> NewPositionsPortfolio(pos.initial_capital), raised |-> ""]
    ELSE PositionsRunBar(PositionsRunBars(k - 1, data), k, data)

\* The number of bars the run has processed completely.
BarsDone ==
    IF variant = "ledger"
    THEN (IF pc \in {"sweep", "finish", "done"} THEN i - 1 ELSE 0)
    ELSE (IF pc \in {"p_signal", "p_results"} THEN i - 1
          ELSE IF pc = "raised" THEN i
          ELSE IF pc = "done" /\ results.set THEN Len(run_args.data)
          ELSE 0)

\* C7: no look-ahead.  The signal applied at each bar up to bar k, the
\* portfolio (every open and closed trade, the cash) and the equity points
\* after bar k are those of the run over the first k bars alone, so they are
\* the same in every run whose series agrees on these bars.
C7_NoLookAhead ==
    BarsDone >= 1 =>
        LET k == BarsDone
            prefix == SubSeq(run_args.data, 1, k)
        IN  IF variant = "ledger"
            THEN /\ SubSeq(signals, 1, k)
                      = GenerateSignals(prefix, strategy.short_window, strategy.long_window)
                 /\ portfolio = RunOn(prefix).portfolio
                 /\ equity_history = RunOn(prefix).equity_history
            ELSE /\ pos = PositionsRunBars(k, prefix).pos
                 /\ raised = PositionsRunBars(k, prefix).raised

\* C7 witness: a ledger run has opened a trade at a bar that later bars follow
\* with other prices, and a positions run has traded before its last bar.
C7_Witness ==
    /\ BarsDone >= 1
    /\ BarsDone < Len(run_args.data)
    /\ run_args.data[BarsDone + 1] # run_args.data[BarsDone]
    /\ \/ /\ variant = "ledger"
          /\ \E k \in DOMAIN portfolio.trades_open :
                portfolio.trades_open[k].entry_time = BarsDone
       \/ /\ variant = "positions"
          /\ \E k \in DOMAIN pos.trades : pos.trades[k].timestamp = BarsDone

\* The equity curve the run returned.
ResultCurve == IF variant = "ledger" THEN equity_curve ELSE results.equity_curve

\* C8: a run over n bars ends after the last bar without an error, and its
\* equity curve has exactly n entries, one per bar, in the bars' order.
C8_RunProcessesEveryBar ==
    (pc \in {"done", "raised"}) =>
        /\ pc = "done"
        /\ raised = ""
        /\ Len(ResultCurve) = Len(run_args.data)
        /\ \A k \in DOMAIN ResultCurve : ResultCurve[k].timestamp = k

\* The same statement for the ledger variant alone, and for the positions
\* runs that meet no LONG signal they cannot pay for.
C8_LedgerRunProcessesEveryBar ==
    (variant = "ledger" /\ pc = "done") =>
        /\ Len(equity_curve) = Len(run_args.data)
        /\ \A k \in DOMAIN equity_curve : equity_curve[k].timestamp = k

C8_PositionsRunEndsOnlyByError ==
    (variant = "positions" /\ pc \in {"done", "raised"}) =>
        \/ /\ pc = "raised" /\ raised = "UnboundLocalError" /\ bar_signal = "LONG"
           /\ RLt(pos.current_capital, RMul(R(TradeQuantity), bar_price))
        \/ /\ pc = "done" /\ raised = ""
           /\ Len(results.equity_curve) = Len(run_args.data)
           /\ \A k \in DOMAIN results.equity_curve : results.equity_curve[k].timestamp = k

\* The step that applies a HOLD / FLAT signal, in either variant.
HoldStep ==
    \/ variant = "ledger" /\ pc = "signal" /\ signals[i] = 0
    \/ variant = "positions" /\ pc = "p_handle" /\ bar_signal = "HOLD"

\* C9: applying a HOLD / FLAT signal opens no trade and closes no trade (cash,
\* open and closed trades, positions and transactions stay as the sweep left
\* them), and the equity of the bar is recorded all the same.
C9_HoldChangesNothing ==
    [][/\ HoldStep =>
            /\ portfolio' = portfolio
            /\ uuid' = uuid
            /\ pos'.current_capital = pos.current_capital
            /\ pos'.positions = pos.positions
            /\ pos'.trades = pos.trades
            /\ pos'.transactions = pos.transactions
            /\ raised' = ""
            /\ variant = "positions" =>
                  pos'.equity_curve = Append(pos.equity_curve,
                        [timestamp |-> i,
                         equity |-> CurrentEquity(pos, PricesAt(strategy.instrument,
                                                                bar_price))])
       /\ (variant = "ledger" /\ pc = "record" /\ signals[i] = 0) =>
            /\ Len(equity_history') = i
            /\ equity_history'[i]
                  = RAdd(portfolio.cash,
                         SumUnrealized(PricedOpenTrades(portfolio,
                                            [x \in {strategy.instrument} |-> bar_price]),
                                       [x \in {strategy.instrument} |-> bar_price]))
            /\ portfolio' = portfolio
    ]_vars

\* C9 witness: a FLAT bar of a ledger run has been applied with a trade open,
\* or a HOLD bar of a positions run has been recorded with a trade open.
C9_Witness ==
    \/ /\ variant = "ledger" /\ pc = "record" /\ signals[i] = 0
       /\ portfolio.trades_open # << >>
    \/ /\ variant = "positions" /\ pc = "p_signal" /\ i > 1 /\ bar_signal = "HOLD"
       /\ pos.trades # << >>
       /\ Len(pos.equity_curve) = i - 1


\* Sums over a sequence of trades: the notional entry_price * size, the
\* realized pnl, and the unrealized pnl at a price.
RECURSIVE SumNotional(_, _)
SumNotional(trades, k) ==
    IF k > Len(trades) THEN Zero
    ELSE RAdd(RMul(trades[k].entry_price, trades[k].size), SumNotional(trades, k + 1))

RECURSIVE SumRealized(_, _)
SumRealized(trades, k) ==
    IF k > Len(trades) THEN Zero
    ELSE RAdd(IF IsNone(trades[k].pnl) THEN Zero ELSE trades[k].pnl,
              SumRealized(trades, k + 1))

RECURSIVE SumOpenPnl(_, _, _)
SumOpenPnl(trades, k, px) ==
    IF k > Len(trades) THEN Zero
    ELSE LET t == trades[k]
             u == IF t.direction = "long" THEN RMul(RSub(px, t.entry_price), t.size)
                  ELSE RMul(RSub(t.entry_price, px), t.size)
         IN  RAdd(u, SumOpenPnl(trades, k + 1, px))

\* A bar of a ledger run has just been recorded: i - 1 is the bar, bar_price
\* its price.
BarRecorded == variant = "ledger" /\ pc \in {"sweep", "finish"} /\ i > 1

\* C11: the equity recorded at every bar of a ledger run equals cash plus the
\* notional of the open trades plus their unrealized pnl at the bar's price,
\* which is the initial capital plus the realized pnl of the closed trades
\* plus the unrealized pnl of the open ones.
C11_EquityReconciles ==
    BarRecorded =>
        /\ equity_history[i - 1]
              = RAdd(RAdd(portfolio.cash, SumNotional(portfolio.trades_open, 1)),
                     SumOpenPnl(portfolio.trades_open, 1, bar_price))
        /\ equity_history[i - 1]
              = RAdd(RAdd(portfolio.initial_capital, SumRealized(portfolio.trades_closed, 1)),
                     SumOpenPnl(portfolio.trades_open, 1, bar_price))

\* What does hold: the ledger itself balances (cash plus the notional of the
\* open trades is the initial capital plus the realized pnl), and the equity
\* recorded is short of the reconciled figure by the notional of the open
\* trades.
C11_LedgerBalances ==
    variant = "ledger" =>
        RAdd(portfolio.cash, SumNotional(portfolio.trades_open, 1))
            = RAdd(portfolio.initial_capital, SumRealized(portfolio.trades_closed, 1))

C11_RecordedEquityOmitsNotional ==
    BarRecorded =>
        RAdd(equity_history[i - 1], SumNotional(portfolio.trades_open, 1))
            = RAdd(RAdd(portfolio.initial_capital, SumRealized(portfolio.trades_closed, 1)),
                   SumOpenPnl(portfolio.trades_open, 1, bar_price))


\* The step of a ledger run that applied the signal of bar i has opened a
\* trade.
EngineOpened ==
    variant = "ledger" /\ pc = "record" /\ call.op = "open_trade" /\ call.ret # 0

\* C15: every trade the engine opens at bar price p has notional
\* min(cash_per_trade, cash at entry) and size that amount / p; a long gets
\* stop_loss p * (1 - stop_loss_pct) and take_profit p * (1 + take_profit_pct),
\* a short stop_loss p * (1 + stop_loss_pct) and take_profit
\* p * (1 - take_profit_pct); a null pct leaves its level unset.
C15_EntrySizedAndLevelled ==
    EngineOpened =>
        LET t == Lookup(portfolio.trades_open, call.ret)
            p == bar_price
            alloc_cash == RMin(run_args.cash_per_trade, call.before.cash)
            one == R(1)
        IN  /\ t.entry_price = p
            /\ t.entry_time = i
            /\ t.size = RDiv(alloc_cash, p)
            /\ RMul(t.entry_price, t.size) = alloc_cash
            /\ t.direction = IF signals[i] = 1 THEN "long" ELSE "short"
            /\ t.stop_loss =
                  IF IsNone(run_args.stop_loss) THEN None
                  ELSE IF t.direction = "long"
                  THEN RMul(p, RSub(one, run_args.stop_loss))
                  ELSE RMul(p, RAdd(one, run_args.stop_loss))
            /\ t.take_profit =
                  IF IsNone(run_args.take_profit) THEN None
                  ELSE IF t.direction = "long"
                  THEN RMul(p, RAdd(one, run_args.take_profit))
                  ELSE RMul(p, RSub(one, run_args.take_profit))

\* C15 witness: a short opened with less cash than cash_per_trade, with a
\* stop-loss above and a take-profit below its entry price.
C15_Witness ==
    /\ EngineOpened
    /\ LET t == Lookup(portfolio.trades_open, call.ret)
       IN  /\ t.direction = "short"
           /\ RLt(call.before.cash, run_args.cash_per_trade)
           /\ ~IsNone(t.stop_loss) /\ RLt(t.entry_price, t.stop_loss)
           /\ ~IsNone(t.take_profit) /\ RLt(t.take_profit, t.entry_price)

\* The step that handles a LONG signal the positions portfolio cannot pay.
UnaffordableLong ==
    /\ variant = "positions" /\ pc = "p_handle" /\ bar_signal = "LONG"
    /\ RLt(pos.current_capital, RMul(R(TradeQuantity), bar_price))

\* C17: handle_signal('LONG', ...) with current_capital below the cost of the
\* entry skips the entry without raising: capital, positions, open trades and
\* transactions are unchanged and the bar's equity is recorded.
C17_UnaffordableLongSkipped ==
    [][UnaffordableLong =>
        /\ raised' = ""
        /\ pos'.current_capital = pos.current_capital
        /\ pos'.positions = pos.positions
        /\ pos'.trades = pos.trades
        /\ pos'.transactions = pos.transactions
        /\ \E k \in DOMAIN pos'.equity_curve : pos'.equity_curve[k].timestamp = i
    ]_vars

\* What the code does instead: it raises, and records no equity for the bar.
C17_UnaffordableLongRaises ==
    [][UnaffordableLong =>
        /\ raised' = "UnboundLocalError"
        /\ pos' = pos
        /\ pc' = "raised"
    ]_vars

\* A run on an empty price series has ended.
EmptyRunEnded == Len(run_args.data) = 0 /\ pc \in {"done", "raised"}

\* C20: a run on an empty price series raises no exception and yields an
\* empty equity curve and an empty trade log (no trade opened, cash
\* unchanged), and the caller is told that there is no data to run.
C20_EmptyRunReported ==
    EmptyRunEnded =>
        /\ raised = ""
        /\ variant = "ledger" =>
              /\ equity_curve = << >>
              /\ portfolio = NewPortfolio(portfolio.initial_capital)
        /\ variant = "positions" =>
              /\ results.set
              /\ results.equity_curve = << >>
              /\ results.transactions = << >>
              /\ pos = NewPositionsPortfolio(pos.initial_capital)
        /\ \E k \in DOMAIN stdout : stdout[k] = NoDataNotice

\* What the code does: the ledger engine returns an empty curve and leaves
\* the portfolio untouched but tells the caller nothing; the positions engine
\* prints the notice and returns before it sets its results, which stay None.
C20_LedgerEmptyRunIsSilent ==
    (EmptyRunEnded /\ variant = "ledger") =>
        /\ raised = ""
        /\ equity_curve = << >>
        /\ portfolio = NewPortfolio(portfolio.initial_capital)
        /\ stdout = << >>

C20_PositionsEmptyRunLeavesNone ==
    (EmptyRunEnded /\ variant = "positions") =>
        /\ raised = ""
        /\ stdout = <<NoDataNotice>>
        /\ pos = NewPositionsPortfolio(pos.initial_capital)
        /\ ~results.set

\* C21: when processing a bar raises an error, the run aborts at that bar
\* and no equity curve covering only the bars before it is obtainable as the
\* run's result, neither from the engine nor from the portfolio's
\* get_results.
C21_NoPartialCurveAfterAbort ==
    pc = "raised" =>
        /\ ~ENABLED NextEngine
        /\ equity_curve = << >>
        /\ EngineGetResults(results).equity_curve = << >>
        /\ PortfolioGetResults(pos).equity_curve = << >>

\* What the code does: the run stops at the bar and the engine holds no
\* result, but the portfolio's get_results hands out the equity points of the
\* bars before it.
C21_AbortLeavesCurveInPortfolio ==
    pc = "raised" =>
        /\ ~ENABLED NextEngine
        /\ variant = "positions"
        /\ ~EngineGetResults(results).set
        /\ Len(PortfolioGetResults(pos).equity_curve) = i - 1
        /\ \A k \in 1..(i - 1) : PortfolioGetResults(pos).equity_curve[k].timestamp = k
        /\ i > 1

\* The signals of the bars at which fewer bars than the long window exist.
ShortHistoryBars == {k \in 1..Len(run_args.data) : k < strategy.long_window}

\* C23: at a bar where fewer bars than the strategy's long window are
\* available the signal is neutral (0 of the ledger strategy, HOLD of the
\* positions SMA and EMA strategies), and the strategy does not fail.
C23_ShortHistoryIsNeutral ==
    /\ (variant = "ledger" /\ pc \notin {"start", "load"}) =>
          \A k \in ShortHistoryBars : signals[k] = 0
    /\ (variant = "positions" /\ pc = "p_check" /\ i \in ShortHistoryBars) =>
          bar_signal = "HOLD"
    /\ \A k \in ShortHistoryBars :
          EMASignal(SubSeq(run_args.data, 1, k), strategy.short_window,
                    strategy.long_window) = "HOLD"

\* What the strategies do on a short history: the positions SMA and the EMA
\* strategy answer HOLD; the ledger strategy averages the bars there are
\* (min_periods=1) and signals as soon as the mean of the last short_window
\* closes differs from the mean of all closes so far.
C23_LedgerSignalsOnPartialWindows ==
    /\ (variant = "ledger" /\ pc \notin {"start", "load"}) =>
          \A k \in ShortHistoryBars :
              LET short_ma == RDiv(SumRange(run_args.data, Max(1, k - strategy.short_window + 1), k),
                                   R(k - Max(1, k - strategy.short_window + 1) + 1))
                  long_ma  == RDiv(SumRange(run_args.data, 1, k), R(k))
              IN  signals[k] = (IF RLt(long_ma, short_ma) THEN 1
                                ELSE IF RLt(short_ma, long_ma) THEN -1 ELSE 0)
    /\ (variant = "positions" /\ pc = "p_check" /\ i \in ShortHistoryBars) =>
          bar_signal = "HOLD"
    /\ \A k \in ShortHistoryBars :
          EMASignal(SubSeq(run_args.data, 1, k), strategy.short_window,
                    strategy.long_window) = "HOLD"

(***************************************************************************)
(* Claims about the Trade object (checked under SpecTrade)                 *)
(***************************************************************************)
\* The condition under which check_exit is to close an open trade.
ExitDue(t, px) ==
    \/ /\ t.direction = "long"
       /\ \/ ~IsNone(t.stop_loss) /\ RLe(px, t.stop_loss)
          \/ ~IsNone(t.take_profit) /\ RLe(t.take_profit, px)
    \/ /\ t.direction = "short"
       /\ \/ ~IsNone(t.stop_loss) /\ RLe(t.stop_loss, px)
          \/ ~IsNone(t.take_profit) /\ RLe(px, t.take_profit)

\* C13: check_exit(price, time) on an open long closes the trade iff its
\* stop-loss is set and price <= stop_loss or its take-profit is set and
\* price >= take_profit, and on an open short iff price >= stop_loss or
\* price <= take_profit; it returns true exactly when it closed the trade,
\* which then has exit_price = price; on a closed trade it returns false and
\* changes nothing.
C13_CheckExitClosesIffLevelReached ==
    call.op = "check_exit" =>
        IF call.self.status = "closed"
        THEN ~call.exited /\ the_trade = call.self
        ELSE /\ call.self.direction \in {"long", "short"} =>
                  (the_trade.status = "closed") = ExitDue(call.self, call.price)
             /\ call.exited = (the_trade.status = "closed")
             /\ call.exited => the_trade.exit_price = call.price
             /\ ~call.exited => the_trade = call.self

\* C13 witness: an open short closed by a price that just reaches its
\* stop-loss.
C13_Witness ==
    /\ call.op = "check_exit"
    /\ call.self.status = "open" /\ call.self.direction = "short"
    /\ call.self.stop_loss = call.price
    /\ call.exited
    /\ the_trade.status = "closed"

\* C14: close(price, time) on an open trade sets status to closed, exit_price
\* to price, exit_time to time, and pnl to (exit - entry) * size for a long
\* and (entry - exit) * size for a short.
C14_CloseSetsExitAndPnl ==
    (call.op = "close" /\ call.self.status = "open"
        /\ call.self.direction \in {"long", "short"}) =>
        /\ call.raised = ""
        /\ the_trade.status = "closed"
        /\ the_trade.exit_price = call.price
        /\ the_trade.exit_time = call.time
        /\ the_trade.pnl = IF call.self.direction = "long"
                           THEN RMul(RSub(call.price, call.self.entry_price), call.self.size)
                           ELSE RMul(RSub(call.self.entry_price, call.price), call.self.size)
        /\ the_trade = [call.self EXCEPT !.status = the_trade.status,
                                         !.exit_price = the_trade.exit_price,
                                         !.exit_time = the_trade.exit_time,
                                         !.pnl = the_trade.pnl]

\* C14 witness: an open short of size 3 closed below its entry, with a gain.
C14_Witness ==
    /\ call.op = "close"
    /\ call.self.status = "open" /\ call.self.direction = "short"
    /\ call.self.size = R(3)
    /\ RLt(call.price, call.self.entry_price)
    /\ RLt(Zero, the_trade.pnl)

\* C18: close and unrealized_pnl on an open trade whose direction is neither
\* long nor short fail with the invalid-direction error (a ValueError).
C18_InvalidDirectionFails ==
    (call.op \in {"close", "unrealized_pnl"} /\ call.self.status = "open"
        /\ call.self.direction \notin {"long", "short"}) =>
        call.raised = "ValueError"

\* C18 witness: unrealized_pnl has failed on an open trade of direction flat.
C18_Witness ==
    /\ call.op = "unrealized_pnl"
    /\ call.self.status = "open" /\ call.self.direction = "flat"
    /\ call.raised = "ValueError"
    /\ the_trade = call.self


(***************************************************************************)
(* Claims about loading the data (checked under SpecPipeline)              *)
(***************************************************************************)
\* The load is over and the collaborator supplied no prices.
NoPricesSupplied == pc \notin {"load", "p_load"} /\ Len(run_args.data) = 0

\* C22: when the data-loading collaborator supplies no prices, the failure is
\* surfaced to the caller (the ledger loader raises, the positions handler
\* and engine print their notices) and the backtest does not run: no bar is
\* processed, no trade is opened, no equity point is recorded.
C22_NoPricesNoRun ==
    NoPricesSupplied =>
        /\ i <= 1
        /\ signals = << >> /\ bar_signal = ""
        /\ equity_history = << >> /\ equity_curve = << >>
        /\ portfolio = NewPortfolio(portfolio.initial_capital)
        /\ pos = NewPositionsPortfolio(pos.initial_capital)
        /\ ~results.set
        /\ variant = "ledger" => (pc = "raised" /\ raised = "ValueError")
        /\ variant = "positions" =>
              /\ raised = ""
              /\ pc \in {"p_start", "done"}
              /\ stdout[1] = NoDataFound
              /\ pc = "done" => stdout = <<NoDataFound, NoDataNotice>>

\* C22 witness: the download of the ledger pipeline came back empty and the
\* caller got the ValueError before engine.run.
C22_Witness ==
    /\ variant = "ledger"
    /\ Len(run_args.data) = 0
    /\ pc = "raised" /\ raised = "ValueError"
    /\ equity_curve = << >>


(***************************************************************************)
(* Claims about the performance metrics (checked under SpecMetrics)        *)
(***************************************************************************)
NonDecreasing(series) ==
    \A k \in 1..(Len(series) - 1) : RLe(series[k], series[k + 1])

\* The drawdown a call has just answered, if it answered one.
AnsweredDrawdown ==
    IF metrics.op = "max_drawdown" THEN metrics.value
    ELSE IF metrics.op \in {"summarize_performance", "calculate_metrics"} /\ metrics.summary.set
    THEN metrics.summary.max_drawdown
    ELSE NoValue

NoVolatility(returns) ==
    \A j \in DOMAIN returns, k \in DOMAIN returns : returns[j] = returns[k]

\* C25: sharpe_ratio answers exactly 0 whenever the excess returns have no
\* volatility: a series of equal values, of a single element, or of none.
C25_SharpeZeroWithoutVolatility ==
    (metrics.op = "sharpe_ratio" /\ NoVolatility(metrics.returns)) =>
        /\ metrics.raised = ""
        /\ metrics.value = Num(Zero)

\* What sharpe_ratio does: the sample deviation of fewer than two returns is
\* nan, nan == 0 is false, and the answer is nan; two or more equal returns
\* have deviation 0 and the answer is 0.  The Sharpe ratio of
\* calculate_metrics is nan in the same way for a curve of two points.
C25_SharpeOfShortSeriesIsNaN ==
    /\ (metrics.op = "sharpe_ratio" /\ NoVolatility(metrics.returns)) =>
          /\ metrics.raised = ""
          /\ metrics.value = IF Len(metrics.returns) < 2 THEN Num(NaN) ELSE Num(Zero)
    /\ (metrics.op = "calculate_metrics" /\ Len(metrics.equity_curve) = 2) =>
          metrics.summary.sharpe_ratio = Num(NaN)

\* C26: cagr answers 0 whenever the duration in years is <= 0, in particular
\* for an equity curve of zero periods, and does not fail.
C26_CagrZeroForNoDuration ==
    (metrics.op = "cagr"
        /\ (Len(metrics.equity_curve) = 0 \/ metrics.periods_per_year < 0)) =>
        /\ metrics.raised = ""
        /\ metrics.value = Num(Zero)

\* What cagr does: equity_curve.iloc[0] comes before the test of the
\* duration, so a curve of zero periods raises IndexError; the 0 is answered
\* only for a non-empty curve with a negative periods_per_year.
C26_CagrOfEmptyCurveRaises ==
    metrics.op = "cagr" =>
        /\ Len(metrics.equity_curve) = 0 =>
              (metrics.raised = "IndexError" /\ metrics.value = NoValue)
        /\ (Len(metrics.equity_curve) > 0 /\ metrics.periods_per_year < 0) =>
              (metrics.raised = "" /\ metrics.value = Num(Zero))
        /\ (Len(metrics.equity_curve) > 0 /\ metrics.periods_per_year > 0) =>
              (metrics.raised = "" /\ metrics.value.kind = "pow_minus_1")


(***************************************************************************)
(* Claims about settlement in the ledger Portfolio (checked under Spec)    *)
(***************************************************************************)
\* How often a trade id occurs in a collection of trades.
Count(trades, trade_id) ==
    Cardinality({k \in DOMAIN trades : trades[k].trade_id = trade_id})

\* The trades a sweep of symbol at price has to close: open for that symbol
\* when the sweep starts, with the stop-loss or take-profit level reached.
DueInSweep(pf, symbol, price) ==
    {k \in DOMAIN pf.trades_open :
        /\ pf.trades_open[k].ticker = symbol
        /\ HitsExit(pf.trades_open[k], price)}

\* entry_price * size + pnl of the closed trades with the given ids.
RECURSIVE Credited(_, _)
Credited(pf, ids) ==
    IF ids = {} THEN Zero
    ELSE LET id == CHOOSE x \in ids : TRUE
             c  == Lookup(pf.trades_closed, id)
         IN  RAdd(RAdd(RMul(c.entry_price, c.size), c.pnl), Credited(pf, ids \ {id}))

\* C27: update_market(symbol, price, time) deals with every trade open for
\* the symbol at the start of the sweep exactly once: each one whose SL/TP
\* level is reached at price is closed at that price and settled once (gone
\* from trades_open, once in trades_closed, its notional plus pnl credited
\* once), each other one is still open and unchanged.
C27_SweepVisitsEachOnce ==
    call.op = "update_market" =>
        LET before == call.before
            due    == DueInSweep(before, call.symbol, call.price)
            ids    == {before.trades_open[k].trade_id : k \in due}
        IN  /\ \A k \in DOMAIN before.trades_open :
                  LET t == before.trades_open[k]
                  IN  IF k \in due
                      THEN /\ ~HasKey(portfolio.trades_open, t.trade_id)
                           /\ Count(before.trades_closed, t.trade_id) = 0
                           /\ Count(portfolio.trades_closed, t.trade_id) = 1
                           /\ LET c == Lookup(portfolio.trades_closed, t.trade_id)
                              IN  /\ c.status = "closed"
                                  /\ c.exit_price = call.price
                                  /\ c.exit_time = call.time
                      ELSE /\ Count(portfolio.trades_open, t.trade_id) = 1
                           /\ Lookup(portfolio.trades_open, t.trade_id) = t
            /\ Len(portfolio.trades_open) = Len(before.trades_open) - Cardinality(due)
            /\ Len(portfolio.trades_closed) = Len(before.trades_closed) + Cardinality(due)
            /\ portfolio.cash = RAdd(before.cash, Credited(portfolio, ids))

\* C27 witness: one sweep has closed two trades, and a third call is not
\* needed for the second.
C27_Witness ==
    /\ call.op = "update_market"
    /\ Cardinality(DueInSweep(call.before, call.symbol, call.price)) = 2
    /\ Len(portfolio.trades_closed) = 2
    /\ portfolio.trades_open = << >>


\* The trade handed to the _settle_trade call just made, as it was then.
SettledArg == TradeIn(call.before, call.trade_id)

\* C29: _settle_trade does nothing for a trade that is not closed, and no
\* trade is settled twice: a trade is in trades_closed at most once, and
\* _settle_trade on a trade already settled changes nothing.
C29_NoTradeSettledTwice ==
    /\ \A k \in DOMAIN portfolio.trades_closed :
          Count(portfolio.trades_closed, portfolio.trades_closed[k].trade_id) = 1
    /\ (call.op = "_settle_trade" /\ SettledArg.status # "closed") =>
          (portfolio = call.before /\ call.raised = "")
    /\ (call.op = "_settle_trade" /\ HasKey(call.before.trades_closed, call.trade_id)) =>
          (portfolio = call.before /\ call.raised = "")

\* What _settle_trade does: a trade that is not closed is left alone; a trade
\* already settled is credited and appended once more, and the del of its key
\* then raises KeyError.
C29_SettleAgainCreditsAgain ==
    /\ (call.op = "_settle_trade" /\ SettledArg.status # "closed") =>
          (portfolio = call.before /\ call.raised = "")
    /\ (call.op = "_settle_trade" /\ HasKey(call.before.trades_closed, call.trade_id)) =>
          /\ call.raised = "KeyError"
          /\ portfolio.trades_closed = Append(call.before.trades_closed, SettledArg)
          /\ portfolio.trades_open = call.before.trades_open
          /\ portfolio.cash =
                RAdd(call.before.cash,
                     RAdd(RMul(SettledArg.entry_price, SettledArg.size),
                          IF IsNone(SettledArg.pnl) THEN Zero ELSE SettledArg.pnl))

\* A close_trade call on a trade that was open.
ForcedClosure ==
    /\ call.op = "close_trade"
    /\ HasKey(call.before.trades_open, call.trade_id)
    /\ Lookup(call.before.trades_open, call.trade_id).status = "open"

\* What a forced closure of a long or short trade leaves behind.
ForcedClosureSettled ==
    LET before == call.before
        t == Lookup(before.trades_open, call.trade_id)
    IN  /\ call.raised = ""
        /\ portfolio.trades_open = DelKey(before.trades_open, call.trade_id)
        /\ Len(portfolio.trades_open) = Len(before.trades_open) - 1
        /\ Len(portfolio.trades_closed) = Len(before.trades_closed) + 1
        /\ SubSeq(portfolio.trades_closed, 1, Len(before.trades_closed)) = before.trades_closed
        /\ LET c == portfolio.trades_closed[Len(portfolio.trades_closed)]
           IN  /\ c = [t EXCEPT !.status = "closed", !.exit_price = call.price,
                                !.exit_time = call.time, !.pnl = c.pnl]
               /\ ~IsNone(c.pnl)
               /\ portfolio.cash = RAdd(before.cash,
                                        RAdd(RMul(t.entry_price, t.size), c.pnl))

\* What a sweep leaves behind: the trades due are moved to trades_closed and
\* credited, all others are as they were.
SweepClosuresSettled ==
    LET before == call.before
        due    == DueInSweep(before, call.symbol, call.price)
        ids    == {before.trades_open[k].trade_id : k \in due}
    IN  /\ portfolio.trades_open =
              SelectSeq(before.trades_open, LAMBDA t : t.trade_id \notin ids)
        /\ Len(portfolio.trades_closed) = Len(before.trades_closed) + Cardinality(due)
        /\ SubSeq(portfolio.trades_closed, 1, Len(before.trades_closed)) = before.trades_closed
        /\ \A id \in ids : Count(portfolio.trades_closed, id) = 1
        /\ portfolio.cash = RAdd(before.cash, Credited(portfolio, ids))

\* C30: every closure of an open trade, by update_market or by close_trade,
\* adds exactly entry_price * size + pnl to cash, takes the trade out of
\* trades_open and appends it to trades_closed; all other open trades are
\* untouched.
C30_ClosureSettles ==
    /\ call.op = "update_market" => SweepClosuresSettled
    /\ ForcedClosure => ForcedClosureSettled

\* What the closures do: those of long and short trades settle as C30 says;
\* close_trade on a trade of any other direction marks it closed, raises
\* ValueError before _settle_trade, and the trade stays in trades_open with
\* nothing credited.
C30_ClosureOfInvalidDirectionUnsettled ==
    /\ call.op = "update_market" => SweepClosuresSettled
    /\ ForcedClosure =>
          LET t == Lookup(call.before.trades_open, call.trade_id)
          IN  IF t.direction \in {"long", "short"} THEN ForcedClosureSettled
              ELSE /\ call.raised = "ValueError"
                   /\ portfolio.cash = call.before.cash
                   /\ portfolio.trades_closed = call.before.trades_closed
                   /\ HasKey(portfolio.trades_open, call.trade_id)
                   /\ Lookup(portfolio.trades_open, call.trade_id).status = "closed"
                   /\ IsNone(Lookup(portfolio.trades_open, call.trade_id).pnl)


(***************************************************************************)
(* Claims about the positions Portfolio (checked under SpecPositions)      *)
(***************************************************************************)
\* The positions of call.before.trades whose take-profit or stop-loss
\* threshold is met at the prices of the check_TP_SL call just made.
MetAtCheck ==
    {j \in DOMAIN call.before.trades :
        TpOrSlMet(call.before.trades[j], call.prices[call.before.trades[j].asset])}

StillOpen(trade) == \E k \in DOMAIN pos.trades : pos.trades[k] = trade

\* C28: check_TP_SL closes every open trade whose take-profit or stop-loss
\* threshold is met at the current price: on return no trade left in the
\* open list meets its threshold at those prices, and none was closed twice
\* (one closing transaction for each trade that left the list).
C28_CheckClosesEveryDueTrade ==
    call.op = "check_TP_SL" =>
        /\ \A k \in DOMAIN pos.trades :
              ~TpOrSlMet(pos.trades[k], call.prices[pos.trades[k].asset])
        /\ Len(pos.transactions) - Len(call.before.transactions)
              = Len(call.before.trades) - Len(pos.trades)

\* What check_TP_SL does: no trade is closed twice, but of the trades due,
\* the one that follows a trade just closed is stepped over and stays open;
\* a trade due that follows one not due is closed.
C28_CheckSkipsTradeAfterClosed ==
    call.op = "check_TP_SL" =>
        /\ Len(pos.transactions) - Len(call.before.transactions)
              = Len(call.before.trades) - Len(pos.trades)
        /\ \A j \in DOMAIN call.before.trades :
              IF j \notin MetAtCheck THEN StillOpen(call.before.trades[j])
              ELSE IF (j - 1) \notin MetAtCheck THEN ~StillOpen(call.before.trades[j])
              ELSE IF (j - 2) \notin MetAtCheck THEN StillOpen(call.before.trades[j])
              ELSE TRUE
        /\ (\E j \in MetAtCheck : (j - 1) \in MetAtCheck) =>
              (\E k \in DOMAIN pos.trades :
                  TpOrSlMet(pos.trades[k], call.prices[pos.trades[k].asset]))


(***************************************************************************)
(* Claims about the life of a Trade (checked under SpecTrade)              *)
(***************************************************************************)
\* The fields a Trade gets at creation.
CreationFields(t) ==
    <<t.trade_id, t.ticker, t.direction, t.entry_price, t.size, t.stop_loss,
      t.take_profit, t.entry_time>>

\* C31: while a trade is open its exit_price, exit_time and pnl are null; no
\* method call takes it from closed back to open; once it is closed its
\* exit_price, exit_time and pnl never change; and entry_price, size,
\* direction, stop_loss and take_profit never change after creation.
C31_TradeLifecycle ==
    /\ [](the_trade.status = "open" =>
             /\ IsNone(the_trade.exit_price)
             /\ the_trade.exit_time = NoTime
             /\ IsNone(the_trade.pnl))
    /\ [][/\ the_trade.status = "closed" =>
                /\ the_trade'.status = "closed"
                /\ the_trade'.exit_price = the_trade.exit_price
                /\ the_trade'.exit_time = the_trade.exit_time
                /\ the_trade'.pnl = the_trade.pnl
          /\ CreationFields(the_trade') = CreationFields(the_trade)]_vars

\* C31 witness: close has been called at another price on a trade that was
\* closed already, and the trade kept the exit it had.
C31_Witness ==
    /\ call.op = "close"
    /\ call.self.status = "closed"
    /\ call.price # call.self.exit_price
    /\ the_trade = call.self


(***************************************************************************)
(* Claims about the trades of a ledger run (checked under SpecEngine)      *)
(***************************************************************************)
\* C32: the closed-trade list of the ledger portfolio is append-only (every
\* step leaves the entries it had, in place and unchanged, and may add
\* entries at the end), and in an engine run, whose timestamps do not
\* decrease, its entries are ordered by non-decreasing exit_time.
C32_ClosedListAppendOnly ==
    /\ [][/\ Len(portfolio'.trades_closed) >= Len(portfolio.trades_closed)
          /\ SubSeq(portfolio'.trades_closed, 1, Len(portfolio.trades_closed))
                = portfolio.trades_closed]_vars
    /\ [](\A j \in DOMAIN portfolio.trades_closed :
             \A k \in DOMAIN portfolio.trades_closed :
                 j < k => portfolio.trades_closed[j].exit_time
                              <= portfolio.trades_closed[k].exit_time)

\* C32 witness: a ledger run has closed two trades at different bars.
C32_Witness ==
    /\ variant = "ledger"
    /\ Len(portfolio.trades_closed) >= 2
    /\ portfolio.trades_closed[1].exit_time < portfolio.trades_closed[2].exit_time


\* The trades of the run's instrument in trades_open.
OpenOfInstrument(pf) ==
    {k \in DOMAIN pf.trades_open : pf.trades_open[k].ticker = strategy.instrument}

\* C35: at the end of every bar of a ledger run at most one trade of the
\* instrument is open, so a long and a short are never open together.
C35_AtMostOneOpenTrade ==
    LastApplied >= 1 =>
        /\ Cardinality(OpenOfInstrument(portfolio)) <= 1
        /\ ~(OpenOfSide(portfolio, "long") # {} /\ OpenOfSide(portfolio, "short") # {})

\* C35 witness: a SHORT bar found a long open; at its end the long is closed
\* and the short just opened is the only open trade.
C35_Witness ==
    /\ variant = "ledger" /\ pc = "record" /\ signals[i] = -1
    /\ has_long
    /\ Cardinality(OpenOfInstrument(portfolio)) = 1
    /\ Cardinality(OpenOfSide(portfolio, "short")) = 1
    /\ \E k \in DOMAIN portfolio.trades_closed : portfolio.trades_closed[k].exit_time = i

\* C36: in a ledger run, whose timestamps strictly increase, a trade opened
\* at a bar is not closed at that bar, neither by the SL/TP sweep nor by an
\* opposite signal: every trade in the closed list has an exit_time strictly
\* later than its entry_time.
C36_ClosedAfterEntryBar ==
    variant = "ledger" =>
        \A k \in DOMAIN portfolio.trades_closed :
            portfolio.trades_closed[k].entry_time < portfolio.trades_closed[k].exit_time

\* C36 witness: two trades of opposite directions have each been closed at
\* the bar that follows their entry.
C36_Witness ==
    /\ variant = "ledger"
    /\ Len(portfolio.trades_closed) = 2
    /\ \A k \in 1..2 :
          portfolio.trades_closed[k].exit_time = portfolio.trades_closed[k].entry_time + 1
    /\ portfolio.trades_closed[1].direction # portfolio.trades_closed[2].direction

(***************************************************************************)
(* Claims about the books of the ledger Portfolio (checked under Spec)     *)
(***************************************************************************)
\* Every trade in trades_open is open, every trade in trades_closed is closed
\* with a pnl, and no trade is in both.
BooksConsistent(pf) ==
    /\ \A k \in DOMAIN pf.trades_open : pf.trades_open[k].status = "open"
    /\ \A k \in DOMAIN pf.trades_closed :
          /\ pf.trades_closed[k].status = "closed"
          /\ ~IsNone(pf.trades_closed[k].pnl)
          /\ ~HasKey(pf.trades_open, pf.trades_closed[k].trade_id)

PortfolioCalls == {"open_trade", "update_market", "close_trade"}

\* C33: open_trade, update_market and close_trade, failing calls included,
\* keep the books consistent: a portfolio whose open trades are all open and
\* whose closed trades are all closed with a pnl, none in both collections,
\* is so again after the call (and the new portfolio is so).
C33_BooksStayConsistent ==
    (call.op \in PortfolioCalls /\ BooksConsistent(call.before)) =>
        BooksConsistent(portfolio)

\* What the three calls do: they keep the books consistent except for a
\* close_trade that fails in Trade.close (a direction other than long or
\* short), which leaves the trade in trades_open with status closed.
C33_FailedCloseLeavesClosedTradeOpen ==
    (call.op \in PortfolioCalls /\ BooksConsistent(call.before)) =>
        IF call.op = "close_trade" /\ call.raised # ""
        THEN /\ call.raised = "ValueError"
             /\ HasKey(portfolio.trades_open, call.trade_id)
             /\ Lookup(portfolio.trades_open, call.trade_id).status = "closed"
             /\ Lookup(portfolio.trades_open, call.trade_id).direction \notin {"long", "short"}
             /\ ~BooksConsistent(portfolio)
        ELSE BooksConsistent(portfolio)


\* cash plus the notional of the open trades is the initial capital plus the
\* realized pnl that summary reports.
CashConserved(pf) ==
    RAdd(pf.cash, SumNotional(pf.trades_open, 1))
        = RAdd(pf.initial_capital, SumRealized(pf.trades_closed, 1))

\* C34: open_trade, update_market and close_trade conserve cash: if cash plus
\* the sum of entry_price * size over the open trades equals initial_capital
\* plus the sum of pnl over the closed trades before the call, as it does in
\* a new portfolio, it does so after the call.
C34_CashConserved ==
    (call.op \in PortfolioCalls /\ CashConserved(call.before)) => CashConserved(portfolio)

\* C34 witness: after an open_trade, a second open_trade and a close_trade
\* one trade is open, one is closed with a gain or a loss, and the books
\* balance at a cash that is not the initial capital.
C34_Witness ==
    /\ call.op = "close_trade"
    /\ CashConserved(call.before)
    /\ Len(portfolio.trades_open) = 1
    /\ Len(portfolio.trades_closed) = 1
    /\ ~IsNone(portfolio.trades_closed[1].pnl)
    /\ portfolio.trades_closed[1].pnl # Zero
    /\ portfolio.cash # portfolio.initial_capital


\* The open trades of the instruments a sweep of symbol is not about.
OtherInstruments(pf, symbol) ==
    SelectSeq(pf.trades_open, LAMBDA t : t.ticker # symbol)

\* C39: update_market(symbol, price, time) leaves every open trade of another
\* instrument as it was, still in trades_open, and changes cash only by the
\* settlement (entry_price * size + pnl) of the trades of symbol it closed;
\* cash is unchanged when it closed none.
C39_SweepLeavesOtherInstruments ==
    call.op = "update_market" =>
        LET before == call.before
            closed == SubSeq(portfolio.trades_closed, Len(before.trades_closed) + 1,
                             Len(portfolio.trades_closed))
        IN  /\ OtherInstruments(portfolio, call.symbol) = OtherInstruments(before, call.symbol)
            /\ \A k \in DOMAIN closed : closed[k].ticker = call.symbol
            /\ portfolio.cash = RAdd(before.cash,
                                     RAdd(SumNotional(closed, 1), SumRealized(closed, 1)))
            /\ closed = << >> => portfolio.cash = before.cash

\* C39 witness: a sweep of one instrument has closed its trade at a price at
\* which the open trade of another instrument has reached its take-profit
\* too; that trade is still open.
C39_Witness ==
    /\ call.op = "update_market"
    /\ Len(portfolio.trades_closed) = Len(call.before.trades_closed) + 1
    /\ \E k \in DOMAIN portfolio.trades_open :
          /\ portfolio.trades_open[k].ticker # call.symbol
          /\ HitsExit(portfolio.trades_open[k], call.price)

(***************************************************************************)
(* Claims about the holdings of the positions Portfolio                    *)
(* (checked under SpecPositions)                                           *)
(***************************************************************************)
\* The quantities of the open LONG trades of an asset minus those of its
\* open SHORT trades.
RECURSIVE NetOpenQuantity(_, _, _)
NetOpenQuantity(trades, k, asset) ==
    IF k > Len(trades) THEN Zero
    ELSE LET t == trades[k]
             q == IF t.asset # asset THEN Zero
                  ELSE IF t.type = "LONG" THEN t.quantity
                  ELSE RSub(Zero, t.quantity)
         IN  RAdd(q, NetOpenQuantity(trades, k + 1, asset))

\* C37: after any sequence of handle_signal and check_TP_SL calls,
\* positions[asset] (0 for an asset never traded) is the sum of the
\* quantities of the open LONG trades of the asset minus the sum of the
\* quantities of its open SHORT trades.
C37_PositionsMatchOpenTrades ==
    PositionOf(pos, Instrument) = NetOpenQuantity(pos.trades, 1, Instrument)

\* C37 witness: check_TP_SL has closed one of two open trades, and the
\* position is the quantity of the one that is left.
C37_Witness ==
    /\ call.op = "check_TP_SL"
    /\ Len(call.before.trades) = 2
    /\ Len(pos.trades) = 1
    /\ PositionOf(pos, Instrument) # Zero
    /\ PositionOf(pos, Instrument) # PositionOf(call.before, Instrument)


\* C38: no operation of the positions portfolio executed at a price p (a LONG
\* entry, a SHORT entry, a TP/SL close, or a call that does neither) changes
\* the equity evaluated at p, current_capital + sum of positions * p.
C38_EquityUnchangedAtPrice ==
    call.op \in {"handle_signal", "check_TP_SL"} =>
        CurrentEquity(pos, call.prices) = CurrentEquity(call.before, call.prices)

\* C38 witness: a LONG entry followed by a take-profit close at a higher
\* price; the capital moved at both, and the equity at each call's price did
\* not.
C38_Witness ==
    /\ call.op = "check_TP_SL"
    /\ Len(call.before.trades) = 1
    /\ call.before.trades[1].type = "LONG"
    /\ pos.trades = << >>
    /\ RLt(call.before.current_capital, pos.current_capital)
    /\ RLt(pos.initial_capital, CurrentEquity(pos, call.prices))

=============================================================================
